---- MODULE Spec2Model ----
(***************************************************************************)
(* Model of steam-shortcut-manager: the SSH/SFTP remote client             *)
(* (pkg/remote/remote.go) and the shortcuts VDF codec                      *)
(* (pkg/shortcut/shortcut.go).                                             *)
(*                                                                         *)
(* Every method of the program is an operator that maps the receiver's     *)
(* fields, the arguments and the outcome of each external call it makes    *)
(* to the method's result; the actions call these operators with inputs    *)
(* and outcomes drawn from small sets.                                     *)
(***************************************************************************)
EXTENDS Integers, Sequences, FiniteSets, TLC

VARIABLES
    config,      \* remote.Config of the client: KeyFile, Password
    sshClient,   \* Client.sshClient:  "nil", "open" or "closed"
    sftpClient,  \* Client.sftpClient: "nil", "open" or "closed"
    lastConnect, \* how the most recent call of Connect ended ("none" before)
    remoteFile,  \* the file at the remote path: exists, data, perm
    last,        \* the most recent method call: its result and its I/O
    RemoteClient,\* shortcut.RemoteClient: "nil" or "client"
    localFile,   \* the shortcuts file on the local disk: exists, data, perm
    shortcuts,   \* the *Shortcuts handed to Save
    pc,          \* "start", "saved" after Save, "loaded" after Load
    saved,       \* what Save returned and did
    loaded,      \* what Load returned and did
    pivot,       \* the map[string]interface{} handed to ensureVDFMap
    coerced,     \* what ensureVDFMap made of it
    name,        \* the name handed to the remove command
    removed,     \* what the remove command did for one user
    SteamRemoteClient, \* steam.RemoteClient: "nil" or "client"
    artwork,     \* the arguments of SetArtwork: appID, the *ArtworkConfig
    world,       \* how the commands, downloads and writes of SetArtwork end
    applied,     \* what SetArtwork returned and did
    grid,        \* the files written by the steam package: path, mode
    used         \* the mode each component took at its most recent call

clientVars == <<config, sshClient, sftpClient, lastConnect, last>>

codecVars == <<RemoteClient, localFile, shortcuts, pc, saved, loaded>>

coerceVars == <<pivot, coerced>>

removeVars == <<name, removed>>

steamVars == <<SteamRemoteClient, artwork, world, applied, grid, used>>

vars == <<config, sshClient, sftpClient, lastConnect, remoteFile, last,
          RemoteClient, localFile, shortcuts, pc, saved, loaded,
          pivot, coerced, name, removed,
          SteamRemoteClient, artwork, world, applied, grid, used>>

----------------------------------------------------------------------------
(* Bounds of the model *)

\* longest byte sequence handed to WriteFile by the client actions
MaxData == 2

\* the ordinal keys of a collection handed to Save are among the first
\* MaxShortcuts of "0", "1", "2", ...
MaxShortcuts == 2

\* deepest nesting of mappings inside the map handed to ensureVDFMap
MaxDepth == 1

\* the ordinal keys of the file the remove command finds are among the first
\* MaxStored of "0", "1", "2", ...
MaxStored == 3

----------------------------------------------------------------------------
(* Helpers *)

Min(S) == CHOOSE x \in S : \A y \in S : x <= y

Prefix(s, n) == SubSeq(s, 1, n)

\* one external call and whether it succeeded
Ev(call, ok) == [call |-> call, ok |-> ok]

Calls(events) == [i \in 1..Len(events) |-> events[i].call]

Bytes(n) == UNION {[1..k -> {1}] : k \in 0..n}

NoFile == [exists |-> FALSE, data |-> <<>>, perm |-> "none"]

\* a call on a handle can only succeed while the handle is open
CanSucceed(h) == IF h = "open" THEN BOOLEAN ELSE {FALSE}

----------------------------------------------------------------------------
(* pkg/remote/remote.go *)

Configs == [KeyFile : {"", "/k/deck_key"}, Password : {"", "pw"}]

\* the default key files Connect looks for, in the order it tries them
keyPaths == <<"id_rsa", "id_ed25519", "id_ecdsa">>

\* The outcomes of what Connect does outside the program:
\*   keyOK     the explicit key file is readable and parses
\*   defaults  the indices of keyPaths whose file is readable and parses
\*   dialOK    ssh.Dial succeeds, sftpOK  sftp.NewClient succeeds
ConnectEnvs ==
    [keyOK : BOOLEAN, defaults : SUBSET (1..Len(keyPaths)),
     dialOK : BOOLEAN, sftpOK : BOOLEAN]

PublicKeys(src) == [method |-> "publickey", src |-> src]

Password(pw) == [method |-> "password", src |-> pw]

\* lines 42-51: key-based auth from the configured key file
ExplicitKeyAuth(cfg, env) ==
    IF cfg.KeyFile # "" /\ env.keyOK
    THEN <<PublicKeys(cfg.KeyFile)>>
    ELSE <<>>

\* DefaultKeyAuth with the emptiness test of line 54 left out
DefaultKeyAuth_Always(authMethods, env) ==
    IF env.defaults # {}
    THEN <<PublicKeys(keyPaths[Min(env.defaults)])>>
    ELSE <<>>

\* lines 53-73: the default keys are tried only while the list is empty
DefaultKeyAuth(authMethods, env) ==
    IF Len(authMethods) = 0 /\ env.defaults # {}
    THEN <<PublicKeys(keyPaths[Min(env.defaults)])>>
    ELSE <<>>

\* PasswordAuth that never offers the password
PasswordAuth_Never(cfg) == <<>>

\* lines 75-78
PasswordAuth(cfg) ==
    IF cfg.Password # "" THEN <<Password(cfg.Password)>> ELSE <<>>

\* lines 40-78: the list of authentication methods Connect builds
AuthMethods(cfg, env) ==
    LET a1 == ExplicitKeyAuth(cfg, env)
        a2 == a1 \o DefaultKeyAuth(a1, env)
    IN  a2 \o PasswordAuth(cfg)

\* Client.Connect: the client's handles afterwards, the error returned, the
\* network calls made and the authentication methods offered to the server
Connect(ssh, sftp, cfg, env) ==
    LET authMethods == AuthMethods(cfg, env) IN
    IF Len(authMethods) = 0
    THEN [ssh |-> ssh, sftp |-> sftp, err |-> "AuthenticationUnavailable",
          events |-> <<>>, auth |-> <<>>]
    ELSE IF ~env.dialOK
    THEN [ssh |-> ssh, sftp |-> sftp, err |-> "ConnectError",
          events |-> <<Ev("ssh.Dial", FALSE)>>, auth |-> authMethods]
    ELSE IF ~env.sftpOK
    THEN \* line 95 has stored the new session before line 99 closes it
         [ssh |-> "closed", sftp |-> sftp, err |-> "SFTPError",
          events |-> <<Ev("ssh.Dial", TRUE), Ev("sftp.NewClient", FALSE),
                       Ev("ssh.Close", TRUE)>>,
          auth |-> authMethods]
    ELSE [ssh |-> "open", sftp |-> "open", err |-> "nil",
          events |-> <<Ev("ssh.Dial", TRUE), Ev("sftp.NewClient", TRUE)>>,
          auth |-> authMethods]

\* Close that returns the error of a failed Close call
Close_Surfacing(ssh, sftp, o) ==
    LET e1 == IF sftp # "nil" THEN <<Ev("sftp.Close", o.sftp)>> ELSE <<>>
        e2 == IF ssh # "nil" THEN <<Ev("ssh.Close", o.ssh)>> ELSE <<>>
    IN  [ssh |-> IF ssh = "nil" THEN "nil" ELSE "closed",
         sftp |-> IF sftp = "nil" THEN "nil" ELSE "closed",
         err |-> IF \E i \in 1..Len(e1 \o e2) : ~(e1 \o e2)[i].ok
                 THEN "CloseError" ELSE "nil",
         events |-> e1 \o e2]

\* Client.Close: o.sftp and o.ssh are the outcomes of the two Close calls
Close(ssh, sftp, o) ==
    LET e1 == IF sftp # "nil" THEN <<Ev("sftp.Close", o.sftp)>> ELSE <<>>
        e2 == IF ssh # "nil" THEN <<Ev("ssh.Close", o.ssh)>> ELSE <<>>
    IN  [ssh |-> IF ssh = "nil" THEN "nil" ELSE "closed",
         sftp |-> IF sftp = "nil" THEN "nil" ELSE "closed",
         err |-> "nil", events |-> e1 \o e2]

\* Client.ReadFile
ReadFile(sftp, f, o) ==
    IF sftp = "nil"
    THEN [err |-> "NotConnected", events |-> <<>>, data |-> <<>>]
    ELSE IF ~(o.open /\ f.exists)
    THEN [err |-> "FileAccessError", events |-> <<Ev("sftp.Open", FALSE)>>,
          data |-> <<>>]
    ELSE IF ~o.read
    THEN [err |-> "ReadError",
          events |-> <<Ev("sftp.Open", TRUE), Ev("io.ReadAll", FALSE),
                       Ev("file.Close", TRUE)>>,
          data |-> <<>>]
    ELSE [err |-> "nil",
          events |-> <<Ev("sftp.Open", TRUE), Ev("io.ReadAll", TRUE),
                       Ev("file.Close", TRUE)>>,
          data |-> f.data]

\* The outcomes of the calls WriteFile makes; n is the number of bytes that
\* reach the file when the write fails
WriteOutcomes(sftp, data) ==
    [mkdir : CanSucceed(sftp), create : CanSucceed(sftp),
     write : CanSucceed(sftp), chmod : CanSucceed(sftp),
     n : {0, Len(data) \div 2}]

\* WriteFile that returns when MkdirAll fails
WriteFile_MkdirFatal(sftp, f, data, perm, o) ==
    IF sftp = "nil"
    THEN [err |-> "NotConnected", events |-> <<>>, file |-> f]
    ELSE IF ~o.mkdir
    THEN [err |-> "FileAccessError",
          events |-> <<Ev("sftp.MkdirAll", FALSE)>>, file |-> f]
    ELSE IF ~o.create
    THEN [err |-> "FileAccessError",
          events |-> <<Ev("sftp.MkdirAll", TRUE), Ev("sftp.Create", FALSE)>>,
          file |-> f]
    ELSE IF ~o.write
    THEN [err |-> "FileAccessError",
          events |-> <<Ev("sftp.MkdirAll", TRUE), Ev("sftp.Create", TRUE),
                       Ev("file.Write", FALSE), Ev("file.Close", TRUE)>>,
          file |-> [exists |-> TRUE, data |-> Prefix(data, o.n),
                    perm |-> IF f.exists THEN f.perm ELSE "default"]]
    ELSE [err |-> IF o.chmod THEN "nil" ELSE "ChmodError",
          events |-> <<Ev("sftp.MkdirAll", TRUE), Ev("sftp.Create", TRUE),
                       Ev("file.Write", TRUE), Ev("sftp.Chmod", o.chmod),
                       Ev("file.Close", TRUE)>>,
          file |-> [exists |-> TRUE, data |-> data,
                    perm |-> IF o.chmod THEN perm
                             ELSE IF f.exists THEN f.perm ELSE "default"]]

\* Client.WriteFile
WriteFile(sftp, f, data, perm, o) ==
    IF sftp = "nil"
    THEN [err |-> "NotConnected", events |-> <<>>, file |-> f]
    ELSE
    LET e1 == <<Ev("sftp.MkdirAll", o.mkdir)>> IN
    IF ~o.create
    THEN [err |-> "FileAccessError",
          events |-> e1 \o <<Ev("sftp.Create", FALSE)>>, file |-> f]
    ELSE
    LET e2 == e1 \o <<Ev("sftp.Create", TRUE)>>
        created == [exists |-> TRUE, data |-> <<>>,
                    perm |-> IF f.exists THEN f.perm ELSE "default"]
    IN
    IF ~o.write
    THEN [err |-> "FileAccessError",
          events |-> e2 \o <<Ev("file.Write", FALSE), Ev("file.Close", TRUE)>>,
          file |-> [created EXCEPT !.data = Prefix(data, o.n)]]
    ELSE
    LET e3 == e2 \o <<Ev("file.Write", TRUE)>>
        written == [created EXCEPT !.data = data]
    IN
    IF ~o.chmod
    THEN [err |-> "ChmodError",
          events |-> e3 \o <<Ev("sftp.Chmod", FALSE), Ev("file.Close", TRUE)>>,
          file |-> written]
    ELSE [err |-> "nil",
          events |-> e3 \o <<Ev("sftp.Chmod", TRUE), Ev("file.Close", TRUE)>>,
          file |-> [written EXCEPT !.perm = perm]]

\* Client.Stat
Stat(sftp, f, o) ==
    IF sftp = "nil"
    THEN [err |-> "NotConnected", events |-> <<>>]
    ELSE IF o /\ f.exists
    THEN [err |-> "nil", events |-> <<Ev("sftp.Stat", TRUE)>>]
    ELSE [err |-> "StatError", events |-> <<Ev("sftp.Stat", FALSE)>>]

\* FileExists that hands the error of Stat on to the caller
FileExists_Raising(sftp, f, o) ==
    LET st == Stat(sftp, f, o) IN
    [err |-> st.err, events |-> st.events, exists |-> st.err = "nil"]

\* Client.FileExists, lines 174-177: Stat, then err == nil
FileExists(sftp, f, o) ==
    LET st == Stat(sftp, f, o) IN
    [err |-> "nil", events |-> st.events, exists |-> st.err = "nil"]

\* Client.ReadDir
ReadDir(sftp, o) ==
    IF sftp = "nil"
    THEN [err |-> "NotConnected", events |-> <<>>]
    ELSE IF o
    THEN [err |-> "nil", events |-> <<Ev("sftp.ReadDir", TRUE)>>]
    ELSE [err |-> "ReadDirError", events |-> <<Ev("sftp.ReadDir", FALSE)>>]

\* Client.GetHomeDir
GetHomeDir(sftp, o) ==
    IF sftp = "nil"
    THEN [err |-> "NotConnected", events |-> <<>>]
    ELSE IF o
    THEN [err |-> "nil", events |-> <<Ev("sftp.Getwd", TRUE)>>]
    ELSE [err |-> "GetwdError", events |-> <<Ev("sftp.Getwd", FALSE)>>]

\* RunCommand without the test of line 189
RunCommand_Unguarded(ssh, o) ==
    IF ~o.session
    THEN [err |-> "SessionError", events |-> <<Ev("ssh.NewSession", FALSE)>>]
    ELSE [err |-> IF o.run THEN "nil" ELSE "CommandError",
          events |-> <<Ev("ssh.NewSession", TRUE),
                       Ev("session.CombinedOutput", o.run),
                       Ev("session.Close", TRUE)>>]

\* Client.RunCommand: o.session and o.run are the outcomes of NewSession
\* and of CombinedOutput
RunCommand(ssh, o) ==
    IF ssh = "nil"
    THEN [err |-> "NotConnected", events |-> <<>>]
    ELSE IF ~o.session
    THEN [err |-> "SessionError", events |-> <<Ev("ssh.NewSession", FALSE)>>]
    ELSE IF ~o.run
    THEN [err |-> "CommandError",
          events |-> <<Ev("ssh.NewSession", TRUE),
                       Ev("session.CombinedOutput", FALSE),
                       Ev("session.Close", TRUE)>>]
    ELSE [err |-> "nil",
          events |-> <<Ev("ssh.NewSession", TRUE),
                       Ev("session.CombinedOutput", TRUE),
                       Ev("session.Close", TRUE)>>]

----------------------------------------------------------------------------
(* Values *)

\* A 32-bit word as its two 16-bit halves (the model checker's integers end
\* at 2^31 - 1)
W(hi, lo) == [hi |-> hi, lo |-> lo]

\* the word of a number 0 <= n < 2^31
Word(n) == W(n \div 65536, n % 65536)

\* A Go value held in an interface{} or in a field of the typed records,
\* tagged with its dynamic type.  A uint32 holds a word; a float64 in
\* [0, 2^32) holds the word of its integer part and whether a fractional
\* part follows; an int or int64 holds a number in [-2^31, 2^31).
U32(n) == [k |-> "uint32", v |-> n]
Str(x) == [k |-> "string", v |-> x]
Map(m) == [k |-> "map", v |-> m]
Nil == [k |-> "nil", v |-> 0]
F64(n, frac) == [k |-> "float64", v |-> n, frac |-> frac]
NativeInt(n) == [k |-> "int", v |-> n]
Int64(n) == [k |-> "int64", v |-> n]
Bool(b) == [k |-> "bool", v |-> b]
List == [k |-> "list", v |-> 0]
Func == [k |-> "func", v |-> 0]

EmptyMap == <<>>

\* every string the model writes into a file, with its bytes
Strings ==
    {"", "0", "1", "2", "3", "a", "b", "appid", "AppName", "tags", "shortcuts"}

CharsOf(x) ==
    CASE x = "" -> <<>>
      [] x = "0" -> <<48>>
      [] x = "1" -> <<49>>
      [] x = "2" -> <<50>>
      [] x = "3" -> <<51>>
      [] x = "a" -> <<97>>
      [] x = "b" -> <<98>>
      [] x = "appid" -> <<97, 112, 112, 105, 100>>
      [] x = "AppName" -> <<65, 112, 112, 78, 97, 109, 101>>
      [] x = "tags" -> <<116, 97, 103, 115>>
      [] x = "shortcuts" -> <<115, 104, 111, 114, 116, 99, 117, 116, 115>>

\* the string some bytes spell; "?" stands for every string outside Strings
StringOf(bytes) ==
    IF \E x \in Strings : CharsOf(x) = bytes
    THEN CHOOSE x \in Strings : CharsOf(x) = bytes
    ELSE "?"

\* the keys of a map in the two orders the model lets a Go map be ranged in
KeyOrder ==
    <<"0", "1", "2", "3", "AppName", "appid", "shortcuts", "tags", "a", "b",
      "">>

Reverse(q) == [i \in 1..Len(q) |-> q[Len(q) + 1 - i]]

----------------------------------------------------------------------------
(* The binary shortcuts format: github.com/wakeful-cloud/vdf *)

\* a uint32 as four bytes, least significant first
LE4(w) == <<w.lo % 256, w.lo \div 256, w.hi % 256, w.hi \div 256>>

FromLE4(b, p) == W(b[p + 2] + 256 * b[p + 3], b[p] + 256 * b[p + 1])

\* WriteVdf takes uint32, string and Map values only
RECURSIVE Encodable(_)
Encodable(m) ==
    \A key \in DOMAIN m :
        \/ m[key].k \in {"uint32", "string"}
        \/ m[key].k = "map" /\ Encodable(m[key].v)

\* the entries of m for the keys order[i..], then the end marker
RECURSIVE EncodeEntries(_, _, _)
EncodeEntries(m, order, i) ==
    IF i > Len(order) THEN <<8>>
    ELSE IF order[i] \notin DOMAIN m THEN EncodeEntries(m, order, i + 1)
    ELSE
    LET key == order[i]
        val == m[key]
        body == CASE val.k = "uint32" -> <<2>> \o CharsOf(key) \o <<0>> \o LE4(val.v)
                  [] val.k = "string" ->
                        <<1>> \o CharsOf(key) \o <<0>> \o CharsOf(val.v) \o <<0>>
                  [] val.k = "map" ->
                        <<0>> \o CharsOf(key) \o <<0>>
                        \o EncodeEntries(val.v, order, 1)
    IN  body \o EncodeEntries(m, order, i + 1)

\* vdf.WriteVdf; order is the order in which the maps are ranged
WriteVdf(m, order) ==
    IF Encodable(m)
    THEN [err |-> "nil", bytes |-> EncodeEntries(m, order, 1)]
    ELSE [err |-> "UnsupportedType", bytes |-> <<>>]

\* the position of the first zero byte of b at or after p, 0 if there is none
RECURSIVE ZeroAt(_, _)
ZeroAt(b, p) ==
    IF p > Len(b) THEN 0
    ELSE IF b[p] = 0 THEN p
    ELSE ZeroAt(b, p + 1)

\* the entries of b from position p up to the end marker, added to acc:
\* ok, the map m read and the position after the end marker
RECURSIVE DecodeEntries(_, _, _)
DecodeEntries(b, p, acc) ==
    LET bad == [ok |-> FALSE, m |-> EmptyMap, next |-> p] IN
    IF p > Len(b) THEN bad
    ELSE IF b[p] = 8 THEN [ok |-> TRUE, m |-> acc, next |-> p + 1]
    ELSE IF b[p] \notin {0, 1, 2} THEN bad
    ELSE
    LET z == ZeroAt(b, p + 1) IN
    IF z = 0 THEN bad
    ELSE
    LET key == StringOf(SubSeq(b, p + 1, z - 1)) IN
    CASE b[p] = 2 ->
            IF z + 4 > Len(b) THEN bad
            ELSE DecodeEntries(b, z + 5, (key :> U32(FromLE4(b, z + 1))) @@ acc)
      [] b[p] = 1 ->
            LET z2 == ZeroAt(b, z + 1) IN
            IF z2 = 0 THEN bad
            ELSE DecodeEntries(b, z2 + 1,
                    (key :> Str(StringOf(SubSeq(b, z + 1, z2 - 1)))) @@ acc)
      [] b[p] = 0 ->
            LET sub == DecodeEntries(b, z + 1, EmptyMap) IN
            IF ~sub.ok THEN bad
            ELSE DecodeEntries(b, sub.next, (key :> Map(sub.m)) @@ acc)

\* vdf.ReadVdf
ReadVdf(bytes) ==
    LET r == DecodeEntries(bytes, 1, EmptyMap) IN
    IF r.ok THEN [err |-> "nil", m |-> r.m]
    ELSE [err |-> "ParseError", m |-> EmptyMap]

----------------------------------------------------------------------------
(* pkg/shortcut/shortcut.go *)

\* uint32(x) of a float64 x with 0 <= x < 2^32: the fraction is cut off
Uint32OfFloat(val) == val.v

\* uint32(x) of an int or int64 x: the low 32 bits of its two's complement
Uint32OfInt(val) ==
    IF val.v >= 0 THEN Word(val.v)
    ELSE LET m == (val.v + 2147483647) + 1
         IN  W(32768 + (m \div 65536), m % 65536)

\* lines 71-93: the value ensureVDFMap stores for val, keep = FALSE when it
\* stores none
RECURSIVE ensureVDFMap(_)
\* ensureVDFValue without the nil test of lines 74-77
ensureVDFValue_KeepNil(val) ==
    CASE val.k \in {"int", "int64"} -> [keep |-> TRUE, val |-> U32(Uint32OfInt(val))]
      [] val.k = "float64" -> [keep |-> TRUE, val |-> U32(Uint32OfFloat(val))]
      [] val.k \in {"string", "nil"} -> [keep |-> TRUE, val |-> val]
      [] val.k = "map" -> [keep |-> TRUE, val |-> Map(ensureVDFMap(val.v))]
      [] OTHER -> [keep |-> FALSE, val |-> Nil]

ensureVDFValue(val) ==
    CASE val.k = "nil" -> [keep |-> FALSE, val |-> Nil]
      [] val.k \in {"int", "int64"} -> [keep |-> TRUE, val |-> U32(Uint32OfInt(val))]
      [] val.k = "float64" -> [keep |-> TRUE, val |-> U32(Uint32OfFloat(val))]
      [] val.k = "string" -> [keep |-> TRUE, val |-> val]
      [] val.k = "map" -> [keep |-> TRUE, val |-> Map(ensureVDFMap(val.v))]
      [] OTHER -> [keep |-> FALSE, val |-> Nil]

\* ensureVDFMap of lines 71-93
ensureVDFMap(m) ==
    [key \in {x \in DOMAIN m : ensureVDFValue(m[x]).keep} |->
        ensureVDFValue(m[key]).val]

\* lines 191-206: the value the remote-aware ensureVDFMap stores for val;
\* panic when the type assertion of line 196 fails, or below it
RECURSIVE ensureVDFMapRemote(_)
\* ensureVDFValueRemote without the float64 case of lines 197-198
ensureVDFValueRemote_NoFloat(val) ==
    CASE val.k \in {"int", "int64"} -> [panic |-> TRUE, val |-> Nil]
      [] val.k = "map" ->
            LET sub == ensureVDFMapRemote(val.v) IN
            [panic |-> sub.panic, val |-> Map(sub.m)]
      [] OTHER -> [panic |-> FALSE, val |-> val]

ensureVDFValueRemote(val) ==
    CASE val.k \in {"int", "int64"} -> [panic |-> TRUE, val |-> Nil]
      [] val.k = "float64" -> [panic |-> FALSE, val |-> U32(Uint32OfFloat(val))]
      [] val.k = "map" ->
            LET sub == ensureVDFMapRemote(val.v) IN
            [panic |-> sub.panic, val |-> Map(sub.m)]
      [] OTHER -> [panic |-> FALSE, val |-> val]

\* ensureVDFMap of lines 191-206
ensureVDFMapRemote(m) ==
    [panic |-> \E key \in DOMAIN m : ensureVDFValueRemote(m[key]).panic,
     m |-> [key \in DOMAIN m |-> ensureVDFValueRemote(m[key]).val]]

\* json.Marshal fails on a value JSON cannot hold
RECURSIVE Marshalable(_)
Marshalable(val) ==
    CASE val.k = "func" -> FALSE
      [] val.k = "map" -> \A key \in DOMAIN val.v : Marshalable(val.v[key])
      [] OTHER -> TRUE

\* Save lines 159-169: json.Marshal of the records, then json.Unmarshal into
\* a map[string]interface{}: every number arrives as a float64, a nil map
\* or pointer as nil
RECURSIVE JSONToInterface(_)
JSONToInterface(val) ==
    CASE val.k = "uint32" -> F64(val.v, FALSE)
      [] val.k = "map" ->
            Map([key \in DOMAIN val.v |-> JSONToInterface(val.v[key])])
      [] OTHER -> val

\* the zero value of a Shortcut
ZeroShortcut == [appid |-> U32(Word(0)), AppName |-> Str(""), tags |-> Nil]

\* json.Unmarshal of one JSON value into a field of a Shortcut
FieldFits(field, val) ==
    \/ val.k = "nil"
    \/ field = "appid" /\ val.k = "uint32"
    \/ field = "AppName" /\ val.k = "string"
    \/ field = "tags" /\ val.k = "map"
    \/ field \notin DOMAIN ZeroShortcut

ShortcutFits(val) ==
    /\ val.k \in {"map", "nil"}
    /\ val.k = "map" => \A field \in DOMAIN val.v : FieldFits(field, val.v[field])

UnmarshalShortcut(val) ==
    IF val.k = "nil" THEN Map(ZeroShortcut)
    ELSE Map([field \in DOMAIN ZeroShortcut |->
                IF field \in DOMAIN val.v /\ val.v[field].k # "nil"
                THEN val.v[field]
                ELSE ZeroShortcut[field]])

\* Load lines 141-151: json.Marshal of the vdf.Map, json.Unmarshal into a
\* Shortcuts
UnmarshalShortcuts(m) ==
    IF "shortcuts" \notin DOMAIN m \/ m["shortcuts"].k = "nil"
    THEN [err |-> "nil", value |-> Map([shortcuts |-> Nil])]
    ELSE IF m["shortcuts"].k # "map"
    THEN [err |-> "ShapeError", value |-> Nil]
    ELSE IF \E key \in DOMAIN m["shortcuts"].v : ~ShortcutFits(m["shortcuts"].v[key])
    THEN [err |-> "ShapeError", value |-> Nil]
    ELSE [err |-> "nil",
          value |-> Map([shortcuts |->
                Map([key \in DOMAIN m["shortcuts"].v |->
                        UnmarshalShortcut(m["shortcuts"].v[key])])])]

\* os.ReadFile
OsReadFile(f, ok) ==
    IF ok /\ f.exists
    THEN [err |-> "nil", events |-> <<Ev("os.ReadFile", TRUE)>>, data |-> f.data]
    ELSE [err |-> "PathError", events |-> <<Ev("os.ReadFile", FALSE)>>,
          data |-> <<>>]

\* os.WriteFile: o.create and o.write are the outcomes of opening and of
\* writing the file, o.n the bytes that reach it when the write fails
OsWriteFile(f, data, perm, o) ==
    IF ~o.create
    THEN [err |-> "PathError", events |-> <<Ev("os.WriteFile", FALSE)>>,
          file |-> f]
    ELSE IF ~o.write
    THEN [err |-> "PathError", events |-> <<Ev("os.WriteFile", FALSE)>>,
          file |-> [exists |-> TRUE, data |-> Prefix(data, o.n),
                    perm |-> IF f.exists THEN f.perm ELSE perm]]
    ELSE [err |-> "nil", events |-> <<Ev("os.WriteFile", TRUE)>>,
          file |-> [exists |-> TRUE, data |-> data,
                    perm |-> IF f.exists THEN f.perm ELSE perm]]

\* Load, lines 120-154.  remote is IsRemote(), sftp the client's handle, rf
\* and lf the remote and the local file; stages lists the stages run.
Load(remote, sftp, rf, lf, o) ==
    LET rd == IF remote THEN ReadFile(sftp, rf, o) ELSE OsReadFile(lf, o.open)
        s1 == <<Ev("read", rd.err = "nil")>>
    IN
    IF rd.err # "nil"
    THEN [err |-> rd.err, value |-> Nil, events |-> rd.events, stages |-> s1]
    ELSE
    LET vdfMap == ReadVdf(rd.data)
        s2 == s1 \o <<Ev("ReadVdf", vdfMap.err = "nil")>>
    IN
    IF vdfMap.err # "nil"
    THEN [err |-> vdfMap.err, value |-> Nil, events |-> rd.events, stages |-> s2]
    ELSE
    LET s3 == s2 \o <<Ev("json.Marshal", TRUE)>>
        sc == UnmarshalShortcuts(vdfMap.m)
        s4 == s3 \o <<Ev("json.Unmarshal", sc.err = "nil")>>
    IN
    IF sc.err # "nil"
    THEN [err |-> sc.err, value |-> Nil, events |-> rd.events, stages |-> s4]
    ELSE [err |-> "nil", value |-> sc.value, events |-> rd.events, stages |-> s4]

\* Save that goes on to the write after WriteVdf failed
Save_WriteAnyway(sc, remote, sftp, rf, lf, o) ==
    LET none == [events |-> <<>>, remoteFile |-> rf, localFile |-> lf]
        s1 == <<Ev("json.Marshal", Marshalable(sc))>>
    IN
    IF ~Marshalable(sc)
    THEN none @@ [err |-> "MarshalError", stages |-> s1]
    ELSE
    LET vdf == ensureVDFMapRemote(JSONToInterface(sc).v)
        rawVdf == WriteVdf(vdf.m, o.order)
        s3 == s1 \o <<Ev("json.Unmarshal", TRUE), Ev("WriteVdf", rawVdf.err = "nil")>>
        w == IF remote
             THEN WriteFile(sftp, rf, rawVdf.bytes, "0666", o.w)
             ELSE OsWriteFile(lf, rawVdf.bytes, "0666", [o.w EXCEPT !.n = 0])
    IN  [err |-> IF rawVdf.err # "nil" THEN "EncodeError"
                 ELSE IF w.err = "nil" THEN "nil" ELSE "WriteError",
         stages |-> s3 \o <<Ev("write", w.err = "nil")>>,
         events |-> w.events,
         remoteFile |-> IF remote THEN w.file ELSE rf,
         localFile |-> IF remote THEN lf ELSE w.file]

\* Save, lines 157-188.  o.order is the order the maps are ranged in, o.w
\* the outcomes of the calls of the write.
Save(sc, remote, sftp, rf, lf, o) ==
    LET none == [events |-> <<>>, remoteFile |-> rf, localFile |-> lf]
        s1 == <<Ev("json.Marshal", Marshalable(sc))>>
    IN
    IF ~Marshalable(sc)
    THEN none @@ [err |-> "MarshalError", stages |-> s1]
    ELSE
    LET vdfMap == JSONToInterface(sc).v
        s2 == s1 \o <<Ev("json.Unmarshal", TRUE)>>
        vdf == ensureVDFMapRemote(vdfMap)
    IN
    IF vdf.panic
    THEN none @@ [err |-> "panic", stages |-> s2 \o <<Ev("ensureVDFMap", FALSE)>>]
    ELSE
    LET rawVdf == WriteVdf(vdf.m, o.order)
        s3 == s2 \o <<Ev("WriteVdf", rawVdf.err = "nil")>>
    IN
    IF rawVdf.err # "nil"
    THEN none @@ [err |-> "EncodeError", stages |-> s3]
    ELSE
    LET w == IF remote
             THEN WriteFile(sftp, rf, rawVdf.bytes, "0666", o.w)
             ELSE OsWriteFile(lf, rawVdf.bytes, "0666", o.w)
    IN  [err |-> IF w.err = "nil" THEN "nil" ELSE "WriteError",
         stages |-> s3 \o <<Ev("write", w.err = "nil")>>,
         events |-> w.events,
         remoteFile |-> IF remote THEN w.file ELSE rf,
         localFile |-> IF remote THEN lf ELSE w.file]

----------------------------------------------------------------------------
(* Strings: the functions of package strings, fmt and path the steam *)
(* package uses                                                      *)

\* the character of s at position i, counted from 1
CharAt(s, i) == SubSeq(s, i, i)

\* strings.Contains
Contains(s, substr) ==
    \E i \in 1..(Len(s) - Len(substr) + 1) :
        SubSeq(s, i, i + Len(substr) - 1) = substr

\* strings.HasSuffix
HasSuffix(s, suffix) ==
    /\ Len(s) >= Len(suffix)
    /\ SubSeq(s, Len(s) - Len(suffix) + 1, Len(s)) = suffix

\* strings.Index: the offset of the first substr in s, counted from 0, or -1
Index(s, substr) ==
    IF Contains(s, substr)
    THEN Min({i \in 1..Len(s) : SubSeq(s, i, i + Len(substr) - 1) = substr}) - 1
    ELSE -1

\* strings.ToLower
RECURSIVE ToLower(_)
ToLower(s) ==
    IF Len(s) = 0 THEN s
    ELSE LET UpperCase == "ABCDEFGHIJKLMNOPQRSTUVWXYZ"
             LowerCase == "abcdefghijklmnopqrstuvwxyz"
             c == CharAt(s, 1)
             upper == {i \in 1..Len(UpperCase) : CharAt(UpperCase, i) = c}
             l == IF upper = {} THEN c
                  ELSE CharAt(LowerCase, CHOOSE i \in upper : TRUE)
         IN  l \o ToLower(SubSeq(s, 2, Len(s)))

\* fmt.Sprintf("%d", n) of an unsigned number
RECURSIVE Itoa(_)
Itoa(n) ==
    IF n < 10 THEN CharAt("0123456789", n + 1)
    ELSE Itoa(n \div 10) \o CharAt("0123456789", (n % 10) + 1)

\* path.Join of clean elements: the empty ones are left out
Join(elems) ==
    LET RECURSIVE J(_)
        J(q) == IF Len(q) = 0 THEN ""
                ELSE IF Len(q) = 1 THEN q[1]
                ELSE q[1] \o "/" \o J(Tail(q))
    IN  J(SelectSeq(elems, LAMBDA e : e # ""))

----------------------------------------------------------------------------
(* pkg/steam/artwork.go and the remote helpers of package steam *)

\* the names of the slots, in the order SetArtwork applies them
Slots == <<"GridPortrait", "GridLandscape", "HeroImage", "LogoImage", "IconImage">>

\* lines 17-23
AssetTypeGridPortrait == 0
AssetTypeHero == 1
AssetTypeLogo == 2
AssetTypeGridLandscape == 3

\* an event of a call made on behalf of a slot
SlotEvents(slot, events) ==
    [i \in 1..Len(events) |->
        [slot |-> slot, call |-> events[i].call, ok |-> events[i].ok]]

\* the outcome record of Client.WriteFile when every call ends as ok
WriteAll(ok) ==
    [mkdir |-> ok, create |-> ok, write |-> ok, chmod |-> ok, n |-> 0]

\* mkdirAll, lines 254-260: the result of the remote command is dropped
mkdirAll(remote, ssh, ok) ==
    IF remote
    THEN [err |-> "nil",
          events |-> RunCommand(ssh, [session |-> TRUE, run |-> ok]).events]
    ELSE [err |-> IF ok THEN "nil" ELSE "PathError",
          events |-> <<Ev("os.MkdirAll", ok)>>]

\* writeFile, lines 262-267
writeFile(remote, sftp, data, perm, ok) ==
    LET w == IF remote
             THEN WriteFile(sftp, NoFile, data, perm, WriteAll(ok))
             ELSE OsWriteFile(NoFile, data, perm, WriteAll(ok))
    IN  [err |-> w.err, events |-> w.events]

\* removeFile, lines 269-275
removeFile(remote, ssh, ok) ==
    IF remote
    THEN [err |-> "nil",
          events |-> RunCommand(ssh, [session |-> TRUE, run |-> ok]).events]
    ELSE [err |-> IF ok THEN "nil" ELSE "PathError",
          events |-> <<Ev("os.Remove", ok)>>]

\* runCommand, lines 277-291: o.run says whether the command exits with 0,
\* o.output is what it prints
runCommand(remote, ssh, o) ==
    IF remote
    THEN LET r == RunCommand(ssh, [session |-> TRUE, run |-> o.run])
         IN  [err |-> r.err, events |-> r.events,
              output |-> IF r.err = "NotConnected" THEN "" ELSE o.output]
    ELSE [err |-> IF o.run THEN "nil" ELSE "ExitError",
          events |-> <<Ev("exec.Command", o.run)>>,
          output |-> o.output]

\* checkAiohttpAvailable, lines 224-230
checkAiohttpAvailable(remote, ssh, o) ==
    LET r == runCommand(remote, ssh, o) IN
    [available |-> /\ r.err = "nil"
                   /\ ~Contains(r.output, "ModuleNotFoundError")
                   /\ ~Contains(r.output, "No module"),
     events |-> r.events]

\* GetRemoteUserDir, part_001 lines 24-40: the home directory of the remote
\* host, then .steam/steam/userdata
GetRemoteUserDir(sftp, ok) ==
    LET home == GetHomeDir(sftp, ok) IN
    [err |-> home.err, events |-> home.events,
     dir |-> IF home.err = "nil"
             THEN Join(<<"/home/deck", ".steam", "steam", "userdata">>)
             ELSE ""]

\* the names of the directories among the entries files[i..]
RECURSIVE DirNames(_, _)
DirNames(files, i) ==
    IF i > Len(files) THEN <<>>
    ELSE IF ~files[i].IsDir THEN DirNames(files, i + 1)
    ELSE <<files[i].Name>> \o DirNames(files, i + 1)

\* GetRemoteUsers, part_001 lines 43-63.  o.home and o.readDir are the
\* outcomes of GetHomeDir and ReadDir, o.files the entries ReadDir returns
GetRemoteUsers(sftp, o) ==
    LET userDir == GetRemoteUserDir(sftp, o.home) IN
    IF userDir.err # "nil"
    THEN [err |-> userDir.err, events |-> userDir.events, users |-> <<>>]
    ELSE
    LET files == ReadDir(sftp, o.readDir) IN
    IF files.err # "nil"
    THEN [err |-> files.err, events |-> userDir.events \o files.events,
          users |-> <<>>]
    ELSE [err |-> "nil", events |-> userDir.events \o files.events,
          users |-> DirNames(o.files, 1)]

\* GetUsers of the local mode: it fails or returns the directories of the
\* user data directory
GetUsers(o) ==
    IF ~o.readDir
    THEN [err |-> "PathError", events |-> <<Ev("os.ReadDir", FALSE)>>,
          users |-> <<>>]
    ELSE [err |-> "nil", events |-> <<Ev("os.ReadDir", TRUE)>>,
          users |-> DirNames(o.files, 1)]

\* GetUserDir of the local mode: GetBaseDir, then userdata
GetUserDir(ok) ==
    [err |-> IF ok THEN "nil" ELSE "HomeDirError",
     events |-> <<Ev("os.UserHomeDir", ok)>>,
     dir |-> IF ok THEN Join(<<"/home/me", ".steam", "steam", "userdata">>)
             ELSE ""]

\* getGridPath that goes on without a user
getGridPath_NoUserCheck(remote, sftp, o) ==
    LET users == IF remote THEN GetRemoteUsers(sftp, o) ELSE GetUsers(o)
        userDir == IF remote THEN GetRemoteUserDir(sftp, o.userDir)
                   ELSE GetUserDir(o.userDir)
        user == IF Len(users.users) = 0 THEN "0" ELSE users.users[1]
    IN  [err |-> "nil", events |-> users.events \o userDir.events,
         path |-> Join(<<userDir.dir, user, "config", "grid">>)]

\* getGridPath, lines 232-252.  o.userDir is the outcome of the call of
\* GetRemoteUserDir or GetUserDir that follows the search for users
getGridPath(remote, sftp, o) ==
    LET users == IF remote THEN GetRemoteUsers(sftp, o) ELSE GetUsers(o) IN
    IF users.err # "nil" \/ Len(users.users) = 0
    THEN [err |-> "NoUsersFound", events |-> users.events, path |-> ""]
    ELSE
    LET userDir == IF remote THEN GetRemoteUserDir(sftp, o.userDir)
                   ELSE GetUserDir(o.userDir)
        events == users.events \o userDir.events
    IN
    IF ~remote /\ userDir.err # "nil"
    THEN [err |-> userDir.err, events |-> events, path |-> ""]
    ELSE [err |-> "nil", events |-> events,
          path |-> Join(<<userDir.dir, users.users[1], "config", "grid">>)]

\* getExtensionFromResponse that looks at the URL before the content type
getExtensionFromResponse_UrlFirst(contentType, url) ==
    LET idx == Index(url, "?")
        urlPath == IF idx # -1 THEN SubSeq(url, 1, idx) ELSE url
        urlLower == ToLower(urlPath)
    IN  CASE HasSuffix(urlLower, ".webp") -> ".webp"
          [] HasSuffix(urlLower, ".png") -> ".png"
          [] HasSuffix(urlLower, ".jpg") \/ HasSuffix(urlLower, ".jpeg") -> ".jpg"
          [] HasSuffix(urlLower, ".gif") -> ".gif"
          [] Contains(contentType, "png") -> ".png"
          [] Contains(contentType, "jpeg") \/ Contains(contentType, "jpg") -> ".jpg"
          [] Contains(contentType, "webp") -> ".webp"
          [] Contains(contentType, "gif") -> ".gif"
          [] OTHER -> ".png"

\* getExtensionFromResponse, lines 320-353
getExtensionFromResponse(contentType, url) ==
    IF Contains(contentType, "png") THEN ".png"
    ELSE IF Contains(contentType, "jpeg") \/ Contains(contentType, "jpg")
    THEN ".jpg"
    ELSE IF Contains(contentType, "webp") THEN ".webp"
    ELSE IF Contains(contentType, "gif") THEN ".gif"
    ELSE
    LET idx == Index(url, "?")
        urlPath == IF idx # -1 THEN SubSeq(url, 1, idx) ELSE url
        urlLower == ToLower(urlPath)
    IN  IF HasSuffix(urlLower, ".webp") THEN ".webp"
        ELSE IF HasSuffix(urlLower, ".png") THEN ".png"
        ELSE IF HasSuffix(urlLower, ".jpg") \/ HasSuffix(urlLower, ".jpeg")
        THEN ".jpg"
        ELSE IF HasSuffix(urlLower, ".gif") THEN ".gif"
        ELSE ".png"

\* the bytes of an image
ImageData == <<1>>

\* http.Get and io.ReadAll of lines 296-309 and 103-116: o.get, o.status and
\* o.read are the outcome of the request, the status of the response and
\* the outcome of reading its body
Download(o) ==
    IF ~o.get
    THEN [err |-> "DownloadError", events |-> <<Ev("http.Get", FALSE)>>]
    ELSE IF o.status # 200
    THEN [err |-> "ExternalAPIError", events |-> <<Ev("http.Get", TRUE)>>]
    ELSE IF ~o.read
    THEN [err |-> "ReadError",
          events |-> <<Ev("http.Get", TRUE), Ev("io.ReadAll", FALSE)>>]
    ELSE [err |-> "nil",
          events |-> <<Ev("http.Get", TRUE), Ev("io.ReadAll", TRUE)>>]

\* uploadArtworkToGrid, lines 294-317.  o.contentType is the Content-Type
\* of the response, o.write the outcome of writing the file
uploadArtworkToGrid(url, gridPath, baseName, remote, sftp, o) ==
    LET \* lines 311-315
        destPath ==
            Join(<<gridPath,
                   baseName \o getExtensionFromResponse(o.contentType, url)>>)
        \* line 316
        Written(resp, w) ==
            [err |-> w.err, events |-> resp.events \o w.events,
             written |-> IF w.err = "nil" THEN {destPath} ELSE {}]
        \* lines 296-309
        Got(resp) ==
            IF resp.err # "nil"
            THEN [err |-> resp.err, events |-> resp.events, written |-> {}]
            ELSE Written(resp, writeFile(remote, sftp, ImageData, "0644", o.write))
    IN  Got(Download(o))

\* SetArtworkViaCEF, lines 101-220.  o.writeImage and o.writeScript are the
\* outcomes of the writes of the two temporary files, o.run and o.output
\* the outcome of the script, o.rm that of the removals
SetArtworkViaCEF(appID, imageURL, assetType, remote, ssh, sftp, o) ==
    LET \* lines 205-219: the script is run, the two files are removed
        Ran(e2, run, rm) ==
            LET e3 == e2 \o run.events \o rm.events \o rm.events IN
            IF run.err # "nil"
            THEN [err |-> "ExternalAPIError", events |-> e3]
            ELSE IF Contains(run.output, "ERROR")
            THEN [err |-> "ExternalAPIError", events |-> e3]
            ELSE [err |-> "nil", events |-> e3]
        \* lines 200-203
        Scripted(e1, script) ==
            IF script.err # "nil"
            THEN [err |-> "TempFileError", events |-> e1 \o script.events]
            ELSE Ran(e1 \o script.events,
                     runCommand(remote, ssh, [run |-> o.run, output |-> o.output]),
                     removeFile(remote, ssh, o.rm))
        \* lines 119-122
        Imaged(resp, image) ==
            IF image.err # "nil"
            THEN [err |-> "TempFileError", events |-> resp.events \o image.events]
            ELSE Scripted(resp.events \o image.events,
                          writeFile(remote, sftp, <<appID % 256, assetType>>,
                                    "0755", o.writeScript))
        \* lines 103-116
        Got(resp) ==
            IF resp.err # "nil"
            THEN [err |-> resp.err, events |-> resp.events]
            ELSE Imaged(resp, writeFile(remote, sftp, ImageData, "0644",
                                        o.writeImage))
    IN  Got(Download(o))

\* applyOne that writes the grid file also after an injection that succeeded
applyOne_AlwaysFile(appID, url, baseName, assetType, slot, canUseSteamAPI, gridPath, remote, ssh, sftp, w) ==
    LET Uploaded(e1, mk, up) ==
            [events |-> e1 \o SlotEvents(slot, mk.events)
                           \o SlotEvents(slot, up.events)
                           \o SlotEvents(slot, <<Ev("uploadArtworkToGrid",
                                                    up.err = "nil")>>),
             written |-> up.written]
        Injected(cef) ==
            Uploaded(IF canUseSteamAPI
                     THEN SlotEvents(slot, cef.events)
                          \o SlotEvents(slot, <<Ev("SetArtworkViaCEF",
                                                   cef.err = "nil")>>)
                     ELSE <<>>,
                     mkdirAll(remote, ssh, w.mkdir),
                     uploadArtworkToGrid(url, gridPath, baseName, remote, sftp,
                                         w.fs[slot]))
    IN  IF url = "" THEN [events |-> <<>>, written |-> {}]
        ELSE Injected(SetArtworkViaCEF(appID, url, assetType, remote, ssh, sftp,
                                       w.cef[slot]))

\* applyOne, lines 53-74
applyOne(appID, url, baseName, assetType, slot, canUseSteamAPI, gridPath, remote, ssh, sftp, w) ==
    LET \* lines 67-73: the filesystem fallback
        Uploaded(e1, mk, up) ==
            [events |-> e1 \o SlotEvents(slot, mk.events)
                           \o SlotEvents(slot, up.events)
                           \o SlotEvents(slot, <<Ev("uploadArtworkToGrid",
                                                    up.err = "nil")>>),
             written |-> up.written]
        \* lines 58-65: cef is the result of SetArtworkViaCEF, called only
        \* when canUseSteamAPI
        Injected(cef) ==
            LET e1 == IF canUseSteamAPI
                      THEN SlotEvents(slot, cef.events)
                           \o SlotEvents(slot, <<Ev("SetArtworkViaCEF",
                                                    cef.err = "nil")>>)
                      ELSE <<>>
                success == canUseSteamAPI /\ cef.err = "nil"
            IN  IF success THEN [events |-> e1, written |-> {}]
                ELSE Uploaded(e1, mkdirAll(remote, ssh, w.mkdir),
                              uploadArtworkToGrid(url, gridPath, baseName,
                                                  remote, sftp, w.fs[slot]))
    IN  IF url = "" THEN [events |-> <<>>, written |-> {}]
        ELSE Injected(SetArtworkViaCEF(appID, url, assetType, remote, ssh, sftp,
                                       w.cef[slot]))

\* lines 82-93: what is done for the five slots, in the order of the code;
\* the icon (lines 87-93) goes to the grid directory only
ApplyAll(appID, aw, canUseSteamAPI, gridPath, remote, ssh, sftp, w) ==
    LET Icon(mk, up) ==
            [events |-> SlotEvents("IconImage", mk.events)
                        \o SlotEvents("IconImage", up.events)
                        \o SlotEvents("IconImage", <<Ev("uploadArtworkToGrid",
                                                        up.err = "nil")>>),
             written |-> up.written]
    IN
    << applyOne(appID, aw.GridPortrait, Itoa(appID) \o "p",
                AssetTypeGridPortrait, "GridPortrait", canUseSteamAPI,
                gridPath, remote, ssh, sftp, w),
       applyOne(appID, aw.GridLandscape, Itoa(appID),
                AssetTypeGridLandscape, "GridLandscape", canUseSteamAPI,
                gridPath, remote, ssh, sftp, w),
       applyOne(appID, aw.HeroImage, Itoa(appID) \o "_hero",
                AssetTypeHero, "HeroImage", canUseSteamAPI,
                gridPath, remote, ssh, sftp, w),
       applyOne(appID, aw.LogoImage, Itoa(appID) \o "_logo",
                AssetTypeLogo, "LogoImage", canUseSteamAPI,
                gridPath, remote, ssh, sftp, w),
       IF aw.IconImage = "" THEN [events |-> <<>>, written |-> {}]
       ELSE Icon(mkdirAll(remote, ssh, w.mkdir),
                 uploadArtworkToGrid(aw.IconImage, gridPath,
                                     Itoa(appID) \o "_icon",
                                     remote, sftp, w.fs["IconImage"])) >>

\* the events and the files of the slots q[i..]; with stop, of the slots up
\* to the first that failed, one that ended with a failure of its last method
RECURSIVE Applied(_, _, _)
Applied(q, i, stop) ==
    IF i > Len(q) THEN [events |-> <<>>, written |-> {}, failed |-> FALSE]
    ELSE IF stop /\ q[i].events # <<>> /\ ~q[i].events[Len(q[i].events)].ok
    THEN [events |-> q[i].events, written |-> q[i].written, failed |-> TRUE]
    ELSE LET rest == Applied(q, i + 1, stop) IN
         [events |-> q[i].events \o rest.events,
          written |-> q[i].written \cup rest.written,
          failed |-> rest.failed]

\* SetArtwork that gives up at the first slot that fails
SetArtwork_StopAtFailure(appID, aw, remote, ssh, sftp, w) ==
    LET \* lines 82-95
        Result(e1, all) ==
            [err |-> IF all.failed THEN "ExternalAPIError" ELSE "nil",
             events |-> e1 \o all.events, written |-> all.written]
        \* lines 44-50
        Resolved(canUseSteamAPI, gridPath) ==
            LET e1 == SlotEvents("", canUseSteamAPI.events \o gridPath.events)
            IN  IF gridPath.err # "nil"
                THEN [err |-> gridPath.err, events |-> e1, written |-> {}]
                ELSE Result(e1,
                            Applied(ApplyAll(appID, aw, canUseSteamAPI.available,
                                             gridPath.path, remote, ssh, sftp, w),
                                    1, TRUE))
    IN  IF aw = Nil THEN [err |-> "nil", events |-> <<>>, written |-> {}]
        ELSE Resolved(checkAiohttpAvailable(remote, ssh, w.aiohttp),
                      getGridPath(remote, sftp, w.users))

\* SetArtwork that takes a nil configuration for an error
SetArtwork_NilFails(appID, aw, remote, ssh, sftp, w) ==
    LET \* lines 82-95
        Result(e1, all) ==
            [err |-> "nil",
             events |-> e1 \o all.events, written |-> all.written]
        \* lines 44-50
        Resolved(canUseSteamAPI, gridPath) ==
            LET e1 == SlotEvents("", canUseSteamAPI.events \o gridPath.events)
            IN  IF gridPath.err # "nil"
                THEN [err |-> gridPath.err, events |-> e1, written |-> {}]
                ELSE Result(e1,
                            Applied(ApplyAll(appID, aw, canUseSteamAPI.available,
                                             gridPath.path, remote, ssh, sftp, w),
                                    1, FALSE))
    IN  IF aw = Nil THEN [err |-> "ConfigError", events |-> <<>>, written |-> {}]
        ELSE Resolved(checkAiohttpAvailable(remote, ssh, w.aiohttp),
                      getGridPath(remote, sftp, w.users))

\* SetArtwork, lines 38-96.  aw is the *ArtworkConfig, Nil for nil; w holds
\* the outcomes of the calls made: w.aiohttp of the probe of aiohttp,
\* w.users of the search for users, w.cef[slot] and w.fs[slot] of the two
\* methods for a slot, w.mkdir of the making of the grid directory
SetArtwork(appID, aw, remote, ssh, sftp, w) ==
    LET \* lines 82-95
        Result(e1, all) ==
            [err |-> "nil",
             events |-> e1 \o all.events, written |-> all.written]
        \* lines 44-50
        Resolved(canUseSteamAPI, gridPath) ==
            LET e1 == SlotEvents("", canUseSteamAPI.events \o gridPath.events)
            IN  IF gridPath.err # "nil"
                THEN [err |-> gridPath.err, events |-> e1, written |-> {}]
                ELSE Result(e1,
                            Applied(ApplyAll(appID, aw, canUseSteamAPI.available,
                                             gridPath.path, remote, ssh, sftp, w),
                                    1, FALSE))
    IN  IF aw = Nil THEN [err |-> "nil", events |-> <<>>, written |-> {}]
        ELSE Resolved(checkAiohttpAvailable(remote, ssh, w.aiohttp),
                      getGridPath(remote, sftp, w.users))

----------------------------------------------------------------------------
(* The client's actions: one call of one method *)

\* what `last` records of a call: the handles before it, its result
Called(op, r) ==
    [op |-> op, err |-> r.err, events |-> r.events,
     pre |-> [ssh |-> sshClient, sftp |-> sftpClient]]

\* the remote file before the client has done anything
InitFiles == {NoFile, [exists |-> TRUE, data |-> <<9>>, perm |-> "0644"]}

NoCall == [op |-> "NewClient", err |-> "nil", events |-> <<>>,
           pre |-> [ssh |-> "nil", sftp |-> "nil"]]

NoResult == [err |-> "nil", stages |-> <<>>, events |-> <<>>]

\* the codec at rest: local mode, nothing saved or loaded
IdleCodec ==
    /\ RemoteClient = "nil"
    /\ localFile = NoFile
    /\ shortcuts = Map([shortcuts |-> Map(EmptyMap)])
    /\ pc = "start"
    /\ saved = NoResult
    /\ loaded = NoResult

NotCoerced == [fn |-> "none", panic |-> FALSE, m |-> EmptyMap, enc |-> "none"]

IdleCoerce ==
    /\ pivot = EmptyMap
    /\ coerced = NotCoerced

\* the remove command not run
NotRemoved == [err |-> "none"]

IdleRemove ==
    /\ name = ""
    /\ removed = NotRemoved

\* SetArtwork not called
NotApplied == [err |-> "none", events |-> <<>>]

\* the steam package at rest: local mode, nothing applied
\* no call of a component recorded
NoneUsed ==
    [c \in {"codec", "resolver", "helper"} |->
        [call |-> "none", mode |-> "none", registered |-> FALSE]]

IdleSteam ==
    /\ SteamRemoteClient = "nil"
    /\ artwork = [appID |-> 0, config |-> Nil]
    /\ world = <<>>
    /\ applied = NotApplied
    /\ grid = {}
    /\ used = NoneUsed

\* NewClient: a client with no handle set
InitClient ==
    /\ config \in Configs
    /\ sshClient = "nil"
    /\ sftpClient = "nil"
    /\ lastConnect = "none"
    /\ remoteFile \in InitFiles
    /\ last = NoCall

CallConnect ==
    /\ \E env \in ConnectEnvs :
        LET r == Connect(sshClient, sftpClient, config, env) IN
        /\ sshClient' = r.ssh
        /\ sftpClient' = r.sftp
        /\ lastConnect' = r.err
        /\ last' = Called("Connect", r) @@ [auth |-> r.auth, keyOK |-> env.keyOK, defaults |-> env.defaults]
    /\ UNCHANGED <<config, remoteFile>>
    /\ UNCHANGED codecVars
    /\ UNCHANGED coerceVars
    /\ UNCHANGED removeVars
    /\ UNCHANGED steamVars

CallClose ==
    /\ \E o \in [ssh : CanSucceed(sshClient), sftp : CanSucceed(sftpClient)] :
        LET r == Close(sshClient, sftpClient, o) IN
        /\ sshClient' = r.ssh
        /\ sftpClient' = r.sftp
        /\ last' = Called("Close", r)
    /\ UNCHANGED <<config, lastConnect, remoteFile>>
    /\ UNCHANGED codecVars
    /\ UNCHANGED coerceVars
    /\ UNCHANGED removeVars
    /\ UNCHANGED steamVars

CallReadFile ==
    /\ \E o \in [open : CanSucceed(sftpClient), read : CanSucceed(sftpClient)] :
        LET r == ReadFile(sftpClient, remoteFile, o) IN
        last' = Called("ReadFile", r) @@ [data |-> r.data]
    /\ UNCHANGED <<config, sshClient, sftpClient, lastConnect,
                   remoteFile>>
    /\ UNCHANGED codecVars
    /\ UNCHANGED coerceVars
    /\ UNCHANGED removeVars
    /\ UNCHANGED steamVars

CallWriteFile ==
    /\ \E data \in Bytes(MaxData) :
       \E o \in WriteOutcomes(sftpClient, data) :
        LET r == WriteFile(sftpClient, remoteFile, data, "0666", o) IN
        /\ remoteFile' = r.file
        /\ last' = Called("WriteFile", r) @@ [data |-> data]
    /\ UNCHANGED <<config, sshClient, sftpClient, lastConnect>>
    /\ UNCHANGED codecVars
    /\ UNCHANGED coerceVars
    /\ UNCHANGED removeVars
    /\ UNCHANGED steamVars

CallStat ==
    /\ \E o \in CanSucceed(sftpClient) :
        last' = Called("Stat", Stat(sftpClient, remoteFile, o))
    /\ UNCHANGED <<config, sshClient, sftpClient, lastConnect,
                   remoteFile>>
    /\ UNCHANGED codecVars
    /\ UNCHANGED coerceVars
    /\ UNCHANGED removeVars
    /\ UNCHANGED steamVars

CallFileExists ==
    /\ \E o \in CanSucceed(sftpClient) :
        LET r == FileExists(sftpClient, remoteFile, o) IN
        last' = Called("FileExists", r) @@ [exists |-> r.exists]
    /\ UNCHANGED <<config, sshClient, sftpClient, lastConnect,
                   remoteFile>>
    /\ UNCHANGED codecVars
    /\ UNCHANGED coerceVars
    /\ UNCHANGED removeVars
    /\ UNCHANGED steamVars

CallReadDir ==
    /\ \E o \in CanSucceed(sftpClient) :
        last' = Called("ReadDir", ReadDir(sftpClient, o))
    /\ UNCHANGED <<config, sshClient, sftpClient, lastConnect,
                   remoteFile>>
    /\ UNCHANGED codecVars
    /\ UNCHANGED coerceVars
    /\ UNCHANGED removeVars
    /\ UNCHANGED steamVars

CallGetHomeDir ==
    /\ \E o \in CanSucceed(sftpClient) :
        last' = Called("GetHomeDir", GetHomeDir(sftpClient, o))
    /\ UNCHANGED <<config, sshClient, sftpClient, lastConnect,
                   remoteFile>>
    /\ UNCHANGED codecVars
    /\ UNCHANGED coerceVars
    /\ UNCHANGED removeVars
    /\ UNCHANGED steamVars

CallRunCommand ==
    /\ \E o \in [session : CanSucceed(sshClient), run : CanSucceed(sshClient)] :
        last' = Called("RunCommand", RunCommand(sshClient, o))
    /\ UNCHANGED <<config, sshClient, sftpClient, lastConnect,
                   remoteFile>>
    /\ UNCHANGED codecVars
    /\ UNCHANGED coerceVars
    /\ UNCHANGED removeVars
    /\ UNCHANGED steamVars

----------------------------------------------------------------------------
(* The codec's actions: Save of a collection, Load of the file *)

OrdinalKeys == <<"0", "1", "2", "3">>

Ordinals == {OrdinalKeys[i] : i \in 1..MaxShortcuts}

\* the records the collections are built from: all fields of supported
\* types (the first two), a nil map, a value JSON cannot hold
Records ==
    { [appid |-> U32(Word(0)), AppName |-> Str(""), tags |-> Map(EmptyMap)],
      [appid |-> U32(Word(305419896)), AppName |-> Str("a"),
       tags |-> Map("0" :> Str("b"))],
      [appid |-> U32(W(65535, 65535)), AppName |-> Str("b"), tags |-> Nil],
      [appid |-> U32(Word(1)), AppName |-> Str("a"),
       tags |-> Map("0" :> Func)] }

Collections ==
    UNION {[keys -> {Map(r) : r \in Records}] : keys \in SUBSET Ordinals}

\* file contents Load may find: a file written earlier, one cut short, one
\* with an unknown type byte, one that is no shortcuts collection
OldData ==
    EncodeEntries(
        "shortcuts" :> Map("0" :> Map([appid |-> U32(Word(7)),
                                       AppName |-> Str("b"),
                                       tags |-> Map(EmptyMap)])),
        KeyOrder, 1)

CodecInitFiles ==
    { NoFile,
      [exists |-> TRUE, data |-> OldData, perm |-> "0644"],
      [exists |-> TRUE, data |-> Prefix(OldData, Len(OldData) - 2), perm |-> "0644"],
      [exists |-> TRUE, data |-> <<5, 97, 0>>, perm |-> "0644"],
      [exists |-> TRUE,
       data |-> EncodeEntries("shortcuts" :> U32(Word(7)), KeyOrder, 1),
       perm |-> "0644"],
      [exists |-> TRUE,
       data |-> EncodeEntries(
                    "shortcuts" :> Map("0" :> Map("appid" :> Str("a"))),
                    KeyOrder, 1),
       perm |-> "0644"] }

\* SetRemoteClient was called or not before the first Save or Load; in
\* remote mode the client is connected or was never connected
InitCodec ==
    /\ config = [KeyFile |-> "", Password |-> "pw"]
    /\ RemoteClient \in {"nil", "client"}
    /\ sftpClient \in (IF RemoteClient = "nil" THEN {"nil"} ELSE {"nil", "open"})
    /\ sshClient = sftpClient
    /\ lastConnect = (IF sftpClient = "open" THEN "nil" ELSE "none")
    /\ last = NoCall
    /\ \E f \in CodecInitFiles : remoteFile = f /\ localFile = f
    /\ \E c \in Collections : shortcuts = Map([shortcuts |-> Map(c)])
    /\ pc = "start"
    /\ saved = NoResult
    /\ loaded = NoResult
    /\ IdleCoerce
    /\ IdleRemove
    /\ IdleSteam

IsRemote == RemoteClient # "nil"

SaveOutcomes ==
    [order : {KeyOrder, Reverse(KeyOrder)},
     w : [mkdir : IF IsRemote THEN CanSucceed(sftpClient) ELSE {TRUE},
          create : IF IsRemote THEN CanSucceed(sftpClient) ELSE BOOLEAN,
          write : IF IsRemote THEN CanSucceed(sftpClient) ELSE BOOLEAN,
          chmod : IF IsRemote THEN CanSucceed(sftpClient) ELSE {TRUE},
          n : {0, 1}]]

CallSave ==
    /\ pc = "start"
    /\ \E o \in SaveOutcomes :
        LET r == Save(shortcuts, IsRemote, sftpClient, remoteFile, localFile, o)
        IN  /\ saved' = [err |-> r.err, stages |-> r.stages, events |-> r.events,
                         pre |-> [remoteFile |-> remoteFile,
                                  localFile |-> localFile]]
            /\ remoteFile' = r.remoteFile
            /\ localFile' = r.localFile
    /\ pc' = "saved"
    /\ UNCHANGED <<RemoteClient, shortcuts, loaded>>
    /\ UNCHANGED clientVars
    /\ UNCHANGED coerceVars
    /\ UNCHANGED removeVars
    /\ UNCHANGED steamVars

CallLoad ==
    /\ pc \in {"start", "saved"}
    /\ \E o \in [open : IF IsRemote THEN CanSucceed(sftpClient) ELSE BOOLEAN,
                 read : IF IsRemote THEN CanSucceed(sftpClient) ELSE {TRUE}] :
        LET r == Load(IsRemote, sftpClient, remoteFile, localFile, o)
        IN  loaded' = [err |-> r.err, stages |-> r.stages, events |-> r.events,
                       value |-> r.value, after |-> pc]
    /\ pc' = "loaded"
    /\ UNCHANGED <<RemoteClient, shortcuts, saved, localFile, remoteFile>>
    /\ UNCHANGED clientVars
    /\ UNCHANGED coerceVars
    /\ UNCHANGED removeVars
    /\ UNCHANGED steamVars

NextCodec ==
    \/ CallSave
    \/ CallLoad

SpecCodec == InitCodec /\ [][NextCodec]_vars

----------------------------------------------------------------------------
(* The remove command: Load, drop the records of the name, re-key, Save *)

\* fmt.Sprintf("%v", key) of a slice index
Sprintf(key) == OrdinalKeys[key + 1]

\* the orders in which a map with the keys S can be ranged
RangeOrders(S) ==
    {q \in [1..Cardinality(S) -> S] : \A x \in S : \E i \in DOMAIN q : q[i] = x}

\* the elements of the sequence q that are in S, in the order of q
RECURSIVE Filter(_, _)
Filter(q, S) ==
    IF q = <<>> THEN <<>>
    ELSE IF Head(q) \in S THEN <<Head(q)>> \o Filter(Tail(q), S)
    ELSE Filter(Tail(q), S)

\* the records of a *Shortcuts: its Shortcuts map, empty when nil
ShortcutsOf(sc) ==
    IF sc.v["shortcuts"].k = "nil" THEN EmptyMap ELSE sc.v["shortcuts"].v

\* the remove command that saves the kept records under the keys they had
Remove_KeepKeys(nm, remote, sftp, rf, lf, o) ==
    LET Saved(sv) ==
            [err |-> sv.err, remoteFile |-> sv.remoteFile,
             localFile |-> sv.localFile]
        Kept(col) == {key \in DOMAIN col : col[key].v["AppName"].v # nm}
        Ranged(col) ==
            Saved(Save(Map([shortcuts |-> Map([key \in Kept(col) |-> col[key]])]),
                       remote, sftp, rf, lf, o.save))
        Loaded(ld) ==
            IF ld.err # "nil"
            THEN [err |-> ld.err, remoteFile |-> rf, localFile |-> lf]
            ELSE Ranged(ShortcutsOf(ld.value))
    IN  Loaded(Load(remote, sftp, rf, lf, o.load))

\* removeCmd.Run, lines 45-72, for one user.  o.load and o.save are the
\* outcomes of the calls of Load and of Save, o.range the order in which
\* shortcuts.Shortcuts is ranged.
Remove(nm, remote, sftp, rf, lf, o) ==
    LET \* line 69: the result of Save ends the run
        Saved(sv) ==
            [err |-> sv.err, remoteFile |-> sv.remoteFile,
             localFile |-> sv.localFile]
        \* lines 61-66: the records of shortcutsList under their indices
        newShortcuts(col, shortcutsList) ==
            Map([shortcuts |->
                Map([key \in {Sprintf(i - 1) : i \in DOMAIN shortcutsList} |->
                        col[shortcutsList[
                            CHOOSE i \in DOMAIN shortcutsList :
                                Sprintf(i - 1) = key]]])])
        \* lines 52-58: every record of another name is kept
        Kept(col) == {key \in DOMAIN col : col[key].v["AppName"].v # nm}
        Ranged(col) ==
            Saved(Save(newShortcuts(col, Filter(o.range, Kept(col))),
                       remote, sftp, rf, lf, o.save))
        \* lines 46-49
        Loaded(ld) ==
            IF ld.err # "nil"
            THEN [err |-> ld.err, remoteFile |-> rf, localFile |-> lf]
            ELSE Ranged(ShortcutsOf(ld.value))
    IN  Loaded(Load(remote, sftp, rf, lf, o.load))

\* the collection a shortcuts file holds: ok, and the records by key
Stored(f) ==
    LET vdfMap == ReadVdf(f.data)
        sc == UnmarshalShortcuts(vdfMap.m)
    IN  IF ~f.exists \/ vdfMap.err # "nil" \/ sc.err # "nil"
        THEN [ok |-> FALSE, records |-> EmptyMap]
        ELSE [ok |-> TRUE, records |-> ShortcutsOf(sc.value)]

\* the file of the active mode
ActiveFile(rf, lf) == IF IsRemote THEN rf ELSE lf

\* the records of the files the command finds: two of one name, with
\* different field values, and one of another name
StoredRecords ==
    { [appid |-> U32(Word(1)), AppName |-> Str("a"), tags |-> Map(EmptyMap)],
      [appid |-> U32(Word(70000)), AppName |-> Str("a"),
       tags |-> Map("0" :> Str("b"))],
      [appid |-> U32(Word(3)), AppName |-> Str("b"), tags |-> Map(EmptyMap)] }

\* a shortcuts file per collection: any keys, with or without gaps
StoredFiles ==
    { [exists |-> TRUE, perm |-> "0644",
       data |-> EncodeEntries("shortcuts" :> Map(c), KeyOrder, 1)] :
        c \in UNION {[keys -> {Map(r) : r \in StoredRecords}] :
                        keys \in SUBSET {OrdinalKeys[i] : i \in 1..MaxStored}} }

InitRemove ==
    /\ config = [KeyFile |-> "", Password |-> "pw"]
    /\ RemoteClient \in {"nil", "client"}
    /\ sftpClient \in (IF RemoteClient = "nil" THEN {"nil"} ELSE {"nil", "open"})
    /\ sshClient = sftpClient
    /\ lastConnect = (IF sftpClient = "open" THEN "nil" ELSE "none")
    /\ last = NoCall
    /\ \E f \in StoredFiles : remoteFile = f /\ localFile = f
    /\ shortcuts = Map([shortcuts |-> Map(EmptyMap)])
    /\ pc = "start"
    /\ saved = NoResult
    /\ loaded = NoResult
    /\ IdleCoerce
    /\ name \in {"a", "b", ""}
    /\ removed = NotRemoved
    /\ IdleSteam

\* the outcomes of one run: the file opens or not, is created or not, and
\* the records it holds are ranged in any order
RemoveOutcomes ==
    [load : [open : IF IsRemote THEN CanSucceed(sftpClient) ELSE BOOLEAN,
             read : {TRUE}],
     save : [order : {KeyOrder},
             w : [mkdir : {TRUE},
                  create : IF IsRemote THEN CanSucceed(sftpClient) ELSE BOOLEAN,
                  write : {TRUE},
                  chmod : {TRUE},
                  n : {1}]],
     range : RangeOrders(DOMAIN Stored(ActiveFile(remoteFile, localFile)).records)]

CallRemove ==
    /\ removed = NotRemoved
    /\ LET Returns(r) ==
               /\ removed' = [err |-> r.err,
                              pre |-> [remoteFile |-> remoteFile,
                                       localFile |-> localFile]]
               /\ remoteFile' = r.remoteFile
               /\ localFile' = r.localFile
       IN  \E o \in RemoveOutcomes :
               Returns(Remove(name, IsRemote, sftpClient, remoteFile,
                              localFile, o))
    /\ UNCHANGED name
    /\ UNCHANGED clientVars
    /\ UNCHANGED <<RemoteClient, shortcuts, pc, saved, loaded>>
    /\ UNCHANGED coerceVars
    /\ UNCHANGED steamVars

SpecRemove == InitRemove /\ [][CallRemove]_vars

----------------------------------------------------------------------------
(* SetArtwork: one call, with every way its commands, downloads and writes *)
(* can end                                                                *)

\* steam.IsRemote, part_001 lines 19-21
SteamIsRemote == SteamRemoteClient # "nil"

GridSlots == {Slots[i] : i \in 1..4}

AllSlots == {Slots[i] : i \in 1..5}

\* the configurations: nil, and every choice of the slots that have a URL
ArtworkConfigs ==
    LET UrlOf(slot) ==
            CASE slot = "GridPortrait" -> "g/1.png"
              [] slot = "GridLandscape" -> "g/2.JPEG?w=9"
              [] slot = "HeroImage" -> "h/3.webp"
              [] slot = "LogoImage" -> "l/4"
              [] slot = "IconImage" -> "i/5.gif"
    IN
    {Nil} \cup
    { [slot \in AllSlots |-> IF slot \in given THEN UrlOf(slot) ELSE ""] :
        given \in SUBSET AllSlots }

\* how the probe of aiohttp can end: found, import fails, message only
Aiohttps ==
    { [run |-> TRUE, output |-> ""],
      [run |-> FALSE, output |-> "ModuleNotFoundError: No module named x"],
      [run |-> TRUE, output |-> "No module named x"] }

\* the search for users that finds one user
UsersFound ==
    [home |-> TRUE, readDir |-> TRUE,
     files |-> <<[Name |-> "ac", IsDir |-> FALSE], [Name |-> "7", IsDir |-> TRUE]>>,
     userDir |-> TRUE]

\* how the search for users can end: one user found, one user found and the
\* user directory not resolved after that, no entry, no directory among
\* the entries, the listing fails, the home directory is not resolved
UserOutcomes ==
    { UsersFound,
      [UsersFound EXCEPT !.userDir = FALSE],
      [UsersFound EXCEPT !.files = <<>>],
      [UsersFound EXCEPT !.files = <<[Name |-> "ac", IsDir |-> FALSE]>>],
      [UsersFound EXCEPT !.readDir = FALSE],
      [UsersFound EXCEPT !.home = FALSE] }

\* the probe that finds aiohttp
AiohttpFound == [run |-> TRUE, output |-> ""]

\* an injection in which every call succeeds
CefDone ==
    [get |-> TRUE, status |-> 200, read |-> TRUE, writeImage |-> TRUE,
     writeScript |-> TRUE, run |-> TRUE, output |-> "", rm |-> TRUE]

\* the ways an injection fails: download, status, body, the temporary
\* files, the script, the answer of the client
CefFailures ==
    << [CefDone EXCEPT !.get = FALSE],
       [CefDone EXCEPT !.status = 404],
       [CefDone EXCEPT !.read = FALSE],
       [CefDone EXCEPT !.writeImage = FALSE],
       [CefDone EXCEPT !.writeScript = FALSE],
       [CefDone EXCEPT !.run = FALSE, !.rm = FALSE],
       [CefDone EXCEPT !.output = "ERROR: error: no app"] >>

\* a download to the grid directory in which every call succeeds
FsDone(contentType) ==
    [get |-> TRUE, status |-> 200, read |-> TRUE, write |-> TRUE,
     contentType |-> contentType]

\* the ways it fails: download, status, body, the write
FsFailures(contentType) ==
    << [FsDone(contentType) EXCEPT !.get = FALSE],
       [FsDone(contentType) EXCEPT !.status = 500],
       [FsDone(contentType) EXCEPT !.read = FALSE],
       [FsDone(contentType) EXCEPT !.write = FALSE] >>

\* the outcomes of one call of SetArtwork: per slot the method succeeds or
\* fails in the way numbered failure
World(a, u, cefOK, fsOK, failure, contentType) ==
    [aiohttp |-> a, users |-> u,
     cef |-> [slot \in GridSlots |->
                IF cefOK[slot] THEN CefDone ELSE CefFailures[failure]],
     fs |-> [slot \in AllSlots |->
                IF fsOK[slot] THEN FsDone(contentType)
                ELSE FsFailures(contentType)[((failure - 1) % 4) + 1]],
     mkdir |-> failure % 2 = 1]

\* the slots of a configuration that have a URL
Given(cfg) == IF cfg = Nil THEN {} ELSE {slot \in AllSlots : cfg[slot] # ""}

\* the outcomes that matter for a configuration: a method can fail for a
\* slot when slots are reached, the slot has a URL and the method is used
\* for it
Worlds(cfg, reached) ==
    UNION UNION UNION {{{
        { World(a, u, cefOK, fsOK, failure, "") :
            failure \in (IF \A slot \in AllSlots : fsOK[slot]
                               /\ (slot \in GridSlots => cefOK[slot])
                         THEN {1}
                         ELSE IF a = AiohttpFound THEN 1..7 ELSE 1..4) } :
        fsOK \in {f \in [AllSlots -> BOOLEAN] :
                    \A slot \in AllSlots :
                        ~f[slot] =>
                            /\ reached /\ u = UsersFound
                            /\ slot \in Given(cfg)
                            /\ slot \in GridSlots /\ a = AiohttpFound
                                    => ~cefOK[slot]} } :
        cefOK \in {f \in [GridSlots -> BOOLEAN] :
                    \A slot \in GridSlots :
                        ~f[slot] =>
                            /\ reached /\ u = UsersFound
                            /\ slot \in Given(cfg)
                            /\ a = AiohttpFound} } :
        a \in Aiohttps, u \in UserOutcomes }

\* the client registered with the steam package is connected or was never
\* connected
InitSteamClient ==
    /\ config = [KeyFile |-> "", Password |-> "pw"]
    /\ SteamRemoteClient \in {"nil", "client"}
    /\ sftpClient \in (IF SteamRemoteClient = "nil" THEN {"nil"}
                        ELSE {"nil", "open"})
    /\ sshClient = sftpClient
    /\ lastConnect = (IF sftpClient = "open" THEN "nil" ELSE "none")
    /\ remoteFile = NoFile
    /\ last = NoCall
    /\ IdleCodec
    /\ IdleCoerce
    /\ IdleRemove

InitArtwork ==
    /\ InitSteamClient
    /\ \E cfg \in ArtworkConfigs :
        /\ artwork = [appID |-> 12, config |-> cfg]
        /\ world \in Worlds(cfg, SteamIsRemote => sftpClient = "open")
    /\ applied = NotApplied
    /\ grid = {}
    /\ used = NoneUsed

\* one call of SetArtwork
CallSetArtwork ==
    /\ applied = NotApplied
    /\ LET Returns(r) ==
               /\ applied' = [err |-> r.err, events |-> r.events]
               /\ grid' = grid \cup r.written
       IN  Returns(SetArtwork(artwork.appID, artwork.config, SteamIsRemote,
                              sshClient, sftpClient, world))
    /\ UNCHANGED <<SteamRemoteClient, artwork, world, used, remoteFile>>
    /\ UNCHANGED clientVars
    /\ UNCHANGED codecVars
    /\ UNCHANGED coerceVars
    /\ UNCHANGED removeVars

SpecArtwork == InitArtwork /\ [][CallSetArtwork]_vars

\* URLs of images: with and without a suffix, in upper case, with a query
Urls ==
    { "a.png", "a.PNG?x=1.gif", "a.jpeg", "a.JPG", "a.webp", "a.gif", "a",
      "a.png.bak", "a.gif?", "a?b.webp", "a.tiff", "A.WeBp" }

\* values of the Content-Type header: none, of an image, of something else
ContentTypes ==
    { "", "image/png", "image/jpeg", "image/jpg", "image/webp", "image/gif",
      "image/gif; q=1", "text/html", "application/octet-stream" }

\* SetArtwork for one slot, with a user found and a connected client: the
\* injection is not available or fails, the download for the grid
\* directory succeeds or its write fails
InitGrid ==
    /\ InitSteamClient
    /\ SteamIsRemote => sftpClient = "open"
    /\ \E slot \in AllSlots, url \in Urls :
        artwork = [appID |-> 12,
                   config |-> [sl \in AllSlots |-> IF sl = slot THEN url ELSE ""]]
    /\ \E a \in {AiohttpFound, [run |-> FALSE, output |-> ""]},
          ok \in BOOLEAN, contentType \in ContentTypes :
        world = World(a, UsersFound, [slot \in GridSlots |-> FALSE],
                      [slot \in AllSlots |-> ok], 4, contentType)
    /\ applied = NotApplied
    /\ grid = {}
    /\ used = NoneUsed

SpecGrid == InitGrid /\ [][CallSetArtwork]_vars

----------------------------------------------------------------------------
(* The mode: the two packages' RemoteClient, and the mode each component *)
(* takes when it is called                                               *)

\* what `used` records of a call: its mode, local when one of its calls is
\* made on the local machine, and whether a remote client was registered
\* with a package when it was made
Use(call, events) ==
    LET LocalCalls ==
            {"os.ReadFile", "os.WriteFile", "os.MkdirAll", "os.Remove",
             "os.ReadDir", "os.UserHomeDir", "exec.Command"}
    IN  [call |-> call,
         mode |-> IF \E i \in DOMAIN events : events[i].call \in LocalCalls
                  THEN "local" ELSE "remote",
         registered |-> RemoteClient # "nil" \/ SteamRemoteClient # "nil"]

\* a connected client, registered with neither package; a shortcuts file of
\* two records, named a and b, on both machines; no component called
InitMode ==
    LET ModeFile ==
            [exists |-> TRUE, perm |-> "0644",
             data |-> EncodeEntries(
                "shortcuts" :> Map(
                    [key \in {"0", "1"} |->
                        Map([appid |-> U32(Word(3)),
                             AppName |-> Str(IF key = "0" THEN "a" ELSE "b"),
                             tags |-> Map(EmptyMap)])]),
                KeyOrder, 1)]
    IN
    /\ config = [KeyFile |-> "", Password |-> "pw"]
    /\ sshClient = "open"
    /\ sftpClient = "open"
    /\ lastConnect = "nil"
    /\ last = NoCall
    /\ RemoteClient = "nil"
    /\ remoteFile = ModeFile
    /\ localFile = ModeFile
    /\ shortcuts = Map([shortcuts |-> Map(EmptyMap)])
    /\ pc = "start"
    /\ saved = NoResult
    /\ loaded = NoResult
    /\ IdleCoerce
    /\ name = "a"
    /\ removed = NotRemoved
    /\ SteamRemoteClient = "nil"
    /\ artwork = [appID |-> 0, config |-> Nil]
    /\ world = <<>>
    /\ applied = NotApplied
    /\ grid = {}
    /\ used = NoneUsed

\* shortcut.SetRemoteClient(client), shortcut.go lines 110-112
ShortcutSetRemoteClient ==
    /\ RemoteClient' = "client"
    /\ UNCHANGED <<localFile, shortcuts, pc, saved, loaded, remoteFile>>
    /\ UNCHANGED clientVars
    /\ UNCHANGED coerceVars
    /\ UNCHANGED removeVars
    /\ UNCHANGED steamVars

\* steam.SetRemoteClient(client), part_001 lines 14-16
SteamSetRemoteClient ==
    /\ SteamRemoteClient' = "client"
    /\ UNCHANGED <<artwork, world, applied, grid, used, remoteFile>>
    /\ UNCHANGED clientVars
    /\ UNCHANGED codecVars
    /\ UNCHANGED coerceVars
    /\ UNCHANGED removeVars

\* shortcut.Load
UseLoad ==
    /\ LET r == Load(IsRemote, sftpClient, remoteFile, localFile, [open |-> TRUE, read |-> TRUE]) IN
        used' = [used EXCEPT !.codec = Use("Load", r.events)]
    /\ UNCHANGED <<SteamRemoteClient, artwork, world, applied, grid, remoteFile>>
    /\ UNCHANGED clientVars
    /\ UNCHANGED codecVars
    /\ UNCHANGED coerceVars
    /\ UNCHANGED removeVars

\* shortcut.Save of an empty collection
UseSave ==
    /\ LET r == Save(shortcuts, IsRemote, sftpClient, remoteFile, localFile,
                     [order |-> KeyOrder, w |-> WriteAll(TRUE)])
       IN  /\ used' = [used EXCEPT !.codec = Use("Save", r.events)]
           /\ remoteFile' = r.remoteFile
           /\ localFile' = r.localFile
    /\ UNCHANGED <<SteamRemoteClient, artwork, world, applied, grid>>
    /\ UNCHANGED <<RemoteClient, shortcuts, pc, saved, loaded>>
    /\ UNCHANGED clientVars
    /\ UNCHANGED coerceVars
    /\ UNCHANGED removeVars

\* the location resolver: getGridPath
UseGetGridPath ==
    /\ LET r == getGridPath(SteamIsRemote, sftpClient, UsersFound) IN
        used' = [used EXCEPT !.resolver = Use("getGridPath", r.events)]
    /\ UNCHANGED <<SteamRemoteClient, artwork, world, applied, grid, remoteFile>>
    /\ UNCHANGED clientVars
    /\ UNCHANGED codecVars
    /\ UNCHANGED coerceVars
    /\ UNCHANGED removeVars

\* the file and command helpers of artwork.go, lines 254-291
UseHelper ==
    /\ \E call \in {"mkdirAll", "writeFile", "removeFile", "runCommand"} :
        LET r == CASE call = "mkdirAll" -> mkdirAll(SteamIsRemote, sshClient, TRUE)
                   [] call = "writeFile" ->
                        writeFile(SteamIsRemote, sftpClient, ImageData, "0644", TRUE)
                   [] call = "removeFile" ->
                        removeFile(SteamIsRemote, sshClient, TRUE)
                   [] call = "runCommand" ->
                        runCommand(SteamIsRemote, sshClient, AiohttpFound)
        IN  used' = [used EXCEPT !.helper = Use(call, r.events)]
    /\ UNCHANGED <<SteamRemoteClient, artwork, world, applied, grid, remoteFile>>
    /\ UNCHANGED clientVars
    /\ UNCHANGED codecVars
    /\ UNCHANGED coerceVars
    /\ UNCHANGED removeVars

\* the remove command, part_002 lines 28-72: steam.GetUsers, the search for
\* users of the local mode (artwork.go line 243), then Load, re-key, Save
UseRemove ==
    /\ LET Returns(users, ld, r) ==
               /\ used' = [used EXCEPT !.resolver = Use("GetUsers", users.events),
                                       !.codec = Use("Load", ld.events)]
               /\ removed' = [err |-> r.err,
                              pre |-> [remoteFile |-> remoteFile,
                                       localFile |-> localFile]]
               /\ remoteFile' = r.remoteFile
               /\ localFile' = r.localFile
       IN  \E range \in RangeOrders(
                DOMAIN Stored(ActiveFile(remoteFile, localFile)).records) :
               Returns(GetUsers(UsersFound),
                       Load(IsRemote, sftpClient, remoteFile, localFile,
                            [open |-> TRUE, read |-> TRUE]),
                       Remove(name, IsRemote, sftpClient, remoteFile, localFile,
                              [load |-> [open |-> TRUE, read |-> TRUE],
                               save |-> [order |-> KeyOrder,
                                         w |-> WriteAll(TRUE)],
                               range |-> range]))
    /\ UNCHANGED <<SteamRemoteClient, artwork, world, applied, grid, name>>
    /\ UNCHANGED clientVars
    /\ UNCHANGED <<RemoteClient, shortcuts, pc, saved, loaded>>
    /\ UNCHANGED coerceVars

NextMode ==
    \/ ShortcutSetRemoteClient
    \/ SteamSetRemoteClient
    \/ UseLoad
    \/ UseSave
    \/ UseGetGridPath
    \/ UseHelper
    \/ UseRemove

SpecMode == InitMode /\ [][NextMode]_vars

----------------------------------------------------------------------------
(* ensureVDFMap on its own: both copies applied to a pivot mapping *)

\* what json.Unmarshal, or a caller building the map by hand, can put under
\* a key
Leaves ==
    { Nil, Bool(TRUE), List, Str("a"),
      F64(Word(5), FALSE), F64(Word(1), TRUE),
      NativeInt(5), Int64(5), NativeInt(-1) }

RECURSIVE PivotValues(_)
PivotValues(depth) ==
    IF depth = 0 THEN Leaves
    ELSE Leaves \cup {Map(EmptyMap)}
         \cup {Map("0" :> val) : val \in PivotValues(depth - 1)}

PivotKeys == {"appid", "tags"}

Pivots ==
    UNION {[keys -> PivotValues(MaxDepth)] : keys \in SUBSET PivotKeys}

InitCoerce ==
    /\ config = [KeyFile |-> "", Password |-> "pw"]
    /\ sshClient = "nil"
    /\ sftpClient = "nil"
    /\ lastConnect = "none"
    /\ remoteFile = NoFile
    /\ last = NoCall
    /\ IdleCodec
    /\ pivot \in Pivots
    /\ coerced = NotCoerced
    /\ IdleRemove
    /\ IdleSteam

\* lines 56-57: vdf.WriteVdf(ensureVDFMap(vdfMap))
CallEnsureVDFMap ==
    /\ LET m == ensureVDFMap(pivot) IN
        coerced' = [fn |-> "ensureVDFMap", panic |-> FALSE, m |-> m,
                    enc |-> WriteVdf(m, KeyOrder).err]
    /\ UNCHANGED <<pivot, remoteFile>>
    /\ UNCHANGED clientVars
    /\ UNCHANGED codecVars
    /\ UNCHANGED removeVars
    /\ UNCHANGED steamVars

\* lines 172-173: vdf.WriteVdf(ensureVDFMap(vdfMap)), remote-aware copy
CallEnsureVDFMapRemote ==
    /\ LET r == ensureVDFMapRemote(pivot) IN
        coerced' = [fn |-> "ensureVDFMapRemote", panic |-> r.panic,
                    m |-> IF r.panic THEN EmptyMap ELSE r.m,
                    enc |-> IF r.panic THEN "none"
                            ELSE WriteVdf(r.m, KeyOrder).err]
    /\ UNCHANGED <<pivot, remoteFile>>
    /\ UNCHANGED clientVars
    /\ UNCHANGED codecVars
    /\ UNCHANGED removeVars
    /\ UNCHANGED steamVars

NextCoerce ==
    \/ CallEnsureVDFMap
    \/ CallEnsureVDFMapRemote

SpecCoerce == InitCoerce /\ [][NextCoerce]_vars

Init == InitClient /\ IdleCodec /\ IdleCoerce /\ IdleRemove /\ IdleSteam

Next ==
    \/ CallConnect
    \/ CallClose
    \/ CallReadFile
    \/ CallWriteFile
    \/ CallStat
    \/ CallFileExists
    \/ CallReadDir
    \/ CallGetHomeDir
    \/ CallRunCommand

Spec == Init /\ [][Next]_vars

----------------------------------------------------------------------------
(* Properties of the remote client *)

\* the methods that need a connection
RemoteOps ==
    {"ReadFile", "WriteFile", "Stat", "ReadDir", "GetHomeDir", "RunCommand"}

\* C3: while Connect has never been called, ReadFile, WriteFile, Stat,
\* ReadDir, GetHomeDir and RunCommand each fail with NotConnected and make no
\* remote call; the remote file is as it was.
C3_NotConnectedBeforeConnect ==
    lastConnect = "none" =>
        /\ remoteFile \in InitFiles
        /\ last.op \in RemoteOps =>
            /\ last.err = "NotConnected"
            /\ last.events = <<>>

C3_Witness ==
    /\ lastConnect = "none"
    /\ last.op = "RunCommand"

\* no authentication method can be built from the configuration and the
\* key files found
NoMethod(cfg, keyOK, defaults) ==
    /\ cfg.KeyFile = "" \/ ~keyOK
    /\ defaults = {}
    /\ cfg.Password = ""

\* C4: Connect fails with AuthenticationUnavailable exactly when no
\* authentication method could be built; it then makes no network call and
\* sets neither handle.
C4_AuthenticationUnavailable ==
    last.op = "Connect" =>
        /\ last.err = "AuthenticationUnavailable"
            <=> NoMethod(config, last.keyOK, last.defaults)
        /\ last.err = "AuthenticationUnavailable" =>
            /\ last.events = <<>>
            /\ sshClient = last.pre.ssh
            /\ sftpClient = last.pre.sftp

C4_Witness ==
    /\ last.op = "Connect"
    /\ last.err = "AuthenticationUnavailable"
    /\ config.KeyFile # ""
    /\ sshClient = "nil"
    /\ sftpClient = "nil"

KeyOf(src) == [method |-> "publickey", src |-> src]

\* (a) the explicit key, (b) the first parseable default key, (c) the password
ClaimedAuth(cfg, keyOK, defaults) ==
    (IF cfg.KeyFile # "" /\ keyOK THEN <<KeyOf(cfg.KeyFile)>> ELSE <<>>)
    \o (IF defaults # {} THEN <<KeyOf(keyPaths[Min(defaults)])>> ELSE <<>>)
    \o (IF cfg.Password # ""
        THEN <<[method |-> "password", src |-> cfg.Password]>> ELSE <<>>)

\* (b) only when (a) gave no method
AmendedAuth(cfg, keyOK, defaults) ==
    LET a == IF cfg.KeyFile # "" /\ keyOK THEN <<KeyOf(cfg.KeyFile)>> ELSE <<>>
    IN  a
        \o (IF a = <<>> /\ defaults # {}
            THEN <<KeyOf(keyPaths[Min(defaults)])>> ELSE <<>>)
        \o (IF cfg.Password # ""
            THEN <<[method |-> "password", src |-> cfg.Password]>> ELSE <<>>)

\* C5 as claimed: the methods Connect offers are (a) the explicit key if
\* configured and parseable, (b) the first parseable default key, (c) the
\* password if configured, in this order.
C5_AuthListAsClaimed ==
    last.op = "Connect" =>
        last.auth = ClaimedAuth(config, last.keyOK, last.defaults)

\* C5 amended: the methods Connect offers are (a) the explicit key if
\* configured and parseable, (b) the first parseable default key but only
\* when (a) gave no method, (c) the password if configured, in this order; a
\* method that cannot be built is skipped, so an unusable key file with a
\* password still dials, offering the password.
C5_AuthList ==
    last.op = "Connect" =>
        /\ last.auth = AmendedAuth(config, last.keyOK, last.defaults)
        /\ (/\ config.KeyFile # ""
            /\ ~last.keyOK
            /\ config.Password # "") =>
            /\ last.err # "AuthenticationUnavailable"
            /\ Len(last.events) >= 1
            /\ last.events[1].call = "ssh.Dial"
            /\ last.auth[Len(last.auth)] =
                [method |-> "password", src |-> config.Password]

C5_Witness ==
    /\ last.op = "Connect"
    /\ config.KeyFile # ""
    /\ ~last.keyOK
    /\ last.defaults = {}
    /\ config.Password # ""
    /\ last.err = "nil"
    /\ last.auth = <<[method |-> "password", src |-> "pw"]>>

\* C6 as claimed: after a Connect whose transport session was established
\* and whose file-transfer session failed, every file method and RunCommand
\* fails with NotConnected and makes no remote call.
C6_NoPartialConnectedState ==
    (lastConnect = "SFTPError" /\ last.op \in RemoteOps) =>
        /\ last.err = "NotConnected"
        /\ last.events = <<>>

\* C7: Close returns no error whatever the state and whatever the two Close
\* calls return; it closes the file-transfer handle, then the transport
\* handle, each if it is set; a repeated Close leaves the client as it is.
C7_CloseIdempotent ==
    last.op = "Close" =>
        /\ last.err = "nil"
        /\ Calls(last.events) =
            (IF last.pre.sftp # "nil" THEN <<"sftp.Close">> ELSE <<>>)
            \o (IF last.pre.ssh # "nil" THEN <<"ssh.Close">> ELSE <<>>)
        /\ sshClient = (IF last.pre.ssh = "nil" THEN "nil" ELSE "closed")
        /\ sftpClient = (IF last.pre.sftp = "nil" THEN "nil" ELSE "closed")
        /\ ("open" \notin {last.pre.ssh, last.pre.sftp}) =>
            (sshClient = last.pre.ssh /\ sftpClient = last.pre.sftp)

C7_Witness ==
    /\ last.op = "Close"
    /\ last.pre.ssh = "closed"
    /\ last.pre.sftp = "closed"
    /\ Len(last.events) = 2
    /\ ~last.events[1].ok
    /\ last.err = "nil"

\* C8: WriteFile on a client with a file-transfer handle calls MkdirAll,
\* Create, Write, Chmod in this order; the outcome of MkdirAll never decides
\* the result; a failed Create or Write returns an error and no later step
\* runs, so Chmod runs only after all bytes were written.
C8_WriteFileOrder ==
    (last.op = "WriteFile" /\ last.pre.sftp # "nil") =>
        LET ev == last.events
            c == Calls(ev)
        IN  /\ Len(ev) >= 2
            /\ c[1] = "sftp.MkdirAll"
            /\ c[2] = "sftp.Create"
            /\ ~ev[2].ok =>
                /\ Len(ev) = 2
                /\ last.err = "FileAccessError"
            /\ ev[2].ok =>
                /\ Len(ev) >= 3
                /\ c[3] = "file.Write"
                /\ ~ev[3].ok =>
                    /\ last.err = "FileAccessError"
                    /\ \A i \in 1..Len(ev) : c[i] # "sftp.Chmod"
                /\ ev[3].ok =>
                    /\ Len(ev) >= 4
                    /\ c[4] = "sftp.Chmod"
                    /\ remoteFile.data = last.data
                    /\ last.err = "nil" <=> ev[4].ok
                    /\ ev[4].ok => remoteFile.perm = "0666"

C8_Witness ==
    /\ last.op = "WriteFile"
    /\ last.pre.sftp = "open"
    /\ ~last.events[1].ok
    /\ last.err = "nil"
    /\ remoteFile.data = last.data
    /\ Len(last.data) = MaxData

----------------------------------------------------------------------------
(* Properties of the codec *)

\* val holds unsigned 32-bit integers, strings and string-keyed mappings only
RECURSIVE Supported(_)
Supported(val) ==
    \/ val.k \in {"uint32", "string"}
    \/ val.k = "map" /\ \A key \in DOMAIN val.v : Supported(val.v[key])

\* C1: Save of a collection whose fields hold only uint32, strings and
\* string-keyed mappings never fails before the write, and when it succeeds
\* a Load that can read the file returns, without error, a collection with
\* the same keys, the same records and equal field values; in local and in
\* remote mode.
C1_RoundTrip ==
    (pc # "start" /\ saved.stages # <<>> /\ Supported(shortcuts)) =>
        /\ saved.err \in {"nil", "WriteError"}
        /\ (/\ pc = "loaded"
            /\ saved.err = "nil"
            /\ loaded.stages[1].ok) =>
            /\ loaded.err = "nil"
            /\ loaded.value = shortcuts

C1_Witness ==
    /\ pc = "loaded"
    /\ IsRemote
    /\ Supported(shortcuts)
    /\ DOMAIN shortcuts.v.shortcuts.v = Ordinals
    /\ \E key \in Ordinals :
        shortcuts.v.shortcuts.v[key].v.appid = U32(Word(305419896))
    /\ saved.err = "nil"
    /\ loaded.err = "nil"
    /\ loaded.value = shortcuts

C1_WitnessLocal ==
    /\ pc = "loaded"
    /\ ~IsRemote
    /\ Supported(shortcuts)
    /\ DOMAIN shortcuts.v.shortcuts.v = Ordinals
    /\ saved.err = "nil"
    /\ loaded.err = "nil"
    /\ loaded.value = shortcuts

LoadStages == <<"read", "ReadVdf", "json.Marshal", "json.Unmarshal">>

SaveStages == <<"json.Marshal", "json.Unmarshal", "WriteVdf", "write">>

\* stages is a beginning of order, and only its last stage may have failed
FailFast(stages, order) ==
    /\ Len(stages) \in 1..Len(order)
    /\ \A i \in 1..Len(stages) : stages[i].call = order[i]
    /\ \A i \in 1..(Len(stages) - 1) : stages[i].ok

LoadErrorOf(stage) ==
    CASE stage = "read" ->
            {"NotConnected", "FileAccessError", "ReadError", "PathError"}
      [] stage = "ReadVdf" -> {"ParseError"}
      [] stage = "json.Unmarshal" -> {"ShapeError"}
      [] OTHER -> {}

SaveErrorOf(stage) ==
    CASE stage = "json.Marshal" -> {"MarshalError"}
      [] stage = "WriteVdf" -> {"EncodeError"}
      [] stage = "write" -> {"WriteError"}
      [] OTHER -> {}

\* C2: Load and Save stop at the first stage that fails and return its
\* error; Load returns a collection exactly when it returns no error; a
\* Save that fails before the write makes no I/O call and leaves the local
\* and the remote file as they were, and a Save only ever touches the file
\* of the active mode.
C2_FailFast ==
    /\ (pc = "loaded") =>
        LET st == loaded.stages
            lastStage == st[Len(st)]
        IN  /\ FailFast(st, LoadStages)
            /\ loaded.err = "nil" <=> (Len(st) = Len(LoadStages) /\ lastStage.ok)
            /\ ~lastStage.ok => loaded.err \in LoadErrorOf(lastStage.call)
            /\ loaded.err # "nil" <=> loaded.value = Nil
            /\ st[1].ok <=> loaded.events # <<>> /\ \A i \in 1..Len(loaded.events) :
                                                    loaded.events[i].ok
    /\ (pc # "start" /\ saved.stages # <<>>) =>
        LET st == saved.stages
            lastStage == st[Len(st)]
        IN  /\ FailFast(st, SaveStages)
            /\ saved.err = "nil" <=> (Len(st) = Len(SaveStages) /\ lastStage.ok)
            /\ ~lastStage.ok => saved.err \in SaveErrorOf(lastStage.call)
            /\ Len(st) < Len(SaveStages) =>
                /\ saved.events = <<>>
                /\ remoteFile = saved.pre.remoteFile
                /\ localFile = saved.pre.localFile
            /\ IsRemote => localFile = saved.pre.localFile
            /\ ~IsRemote => remoteFile = saved.pre.remoteFile

C2_Witness ==
    /\ pc = "saved"
    /\ IsRemote
    /\ sftpClient = "open"
    /\ saved.err = "EncodeError"
    /\ saved.events = <<>>
    /\ remoteFile.data = OldData

C2_WitnessLoad ==
    /\ pc = "loaded"
    /\ loaded.err = "ShapeError"
    /\ loaded.value = Nil

----------------------------------------------------------------------------
(* Properties of ensureVDFMap *)

\* null, or a type outside number, string and mapping
Unsupported(val) == val.k \in {"nil", "bool", "list", "func"}

\* what the drop policy is claimed to omit: also a float with a fraction
DroppedAsClaimed(val) ==
    \/ Unsupported(val)
    \/ val.k = "float64" /\ val.frac

\* m holds exactly the keys of p that are not claimed to be dropped, at
\* every depth
RECURSIVE ClaimedDrop(_, _)
ClaimedDrop(p, m) ==
    /\ DOMAIN m = {key \in DOMAIN p : ~DroppedAsClaimed(p[key])}
    /\ \A key \in DOMAIN m :
        p[key].k = "map" =>
            /\ m[key].k = "map"
            /\ ClaimedDrop(p[key].v, m[key].v)

\* m holds exactly the keys of p whose value is a number, a string or a
\* mapping, at every depth; a float is cut to its integer part
RECURSIVE DropPolicy(_, _)
DropPolicy(p, m) ==
    /\ DOMAIN m = {key \in DOMAIN p : ~Unsupported(p[key])}
    /\ \A key \in DOMAIN m :
        CASE p[key].k = "float64" -> m[key] = U32(p[key].v)
          [] p[key].k \in {"int", "int64"} -> m[key].k = "uint32"
          [] p[key].k = "string" -> m[key] = p[key]
          [] p[key].k = "map" ->
                /\ m[key].k = "map"
                /\ DropPolicy(p[key].v, m[key].v)

\* m holds every key of p, at every depth, and under it the value of p
\* unless that is a number or a mapping
RECURSIVE KeepsAll(_, _)
KeepsAll(p, m) ==
    /\ DOMAIN m = DOMAIN p
    /\ \A key \in DOMAIN m :
        CASE p[key].k = "float64" -> m[key] = U32(p[key].v)
          [] p[key].k = "map" ->
                /\ m[key].k = "map"
                /\ KeepsAll(p[key].v, m[key].v)
          [] OTHER -> m[key] = p[key]

C9_WitnessRemote ==
    /\ coerced.fn = "ensureVDFMapRemote"
    /\ pivot = [appid |-> F64(Word(1), TRUE), tags |-> Map("0" :> Nil)]
    /\ coerced.m = [appid |-> U32(Word(1)), tags |-> Map("0" :> Nil)]
    /\ coerced.enc = "UnsupportedType"

\* the unsigned 32-bit integer of a numeric pivot value that is not negative
LogicalWord(val) == IF val.k = "float64" THEN val.v ELSE Word(val.v)

Numeric(val) ==
    \/ val.k \in {"int", "int64"}
    \/ val.k = "float64" /\ ~val.frac

\* in m every number of p that is not negative is the uint32 of its logical
\* value, every string is itself, every mapping is coerced in the same way
RECURSIVE SameWord(_, _)
SameWord(p, m) ==
    \A key \in DOMAIN p :
        CASE Numeric(p[key]) /\ (p[key].k = "float64" \/ p[key].v >= 0) ->
                key \in DOMAIN m /\ m[key] = U32(LogicalWord(p[key]))
          [] p[key].k = "string" -> key \in DOMAIN m /\ m[key] = p[key]
          [] p[key].k = "map" ->
                /\ key \in DOMAIN m
                /\ m[key].k = "map"
                /\ SameWord(p[key].v, m[key].v)
          [] OTHER -> TRUE

\* C10 as claimed: a native int, an int64 and a whole float64 of the same
\* logical value are coerced to the same uint32, strings pass unchanged,
\* nested mappings are coerced recursively, and no numeric input makes the
\* coercion abort.
C10_NumericCoercion ==
    coerced.fn # "none" =>
        /\ ~coerced.panic
        /\ SameWord(pivot, coerced.m)

\* what C10 claims, of ensureVDFMap of lines 71-93 alone
C10_NumericCoercionLines71to93 ==
    coerced.fn = "ensureVDFMap" =>
        /\ ~coerced.panic
        /\ SameWord(pivot, coerced.m)

----------------------------------------------------------------------------
(* Properties of FileExists *)

\* C16: FileExists returns no error; it returns true exactly when its one
\* remote call, sftp.Stat, succeeded, and false when the client is not
\* connected (no remote call made), when the file is missing and when Stat
\* fails for any other reason.
C16_FileExistsNeverFails ==
    last.op = "FileExists" =>
        /\ last.err = "nil"
        /\ last.exists <=> last.events = <<Ev("sftp.Stat", TRUE)>>
        /\ ~last.exists =>
                \/ last.pre.sftp = "nil" /\ last.events = <<>>
                \/ last.events = <<Ev("sftp.Stat", FALSE)>>
        /\ last.pre.sftp \in {"nil", "closed"} => ~last.exists
        /\ ~remoteFile.exists => ~last.exists

\* FileExists said no on a connected client because Stat failed
C16_Witness ==
    /\ last.op = "FileExists"
    /\ last.pre.sftp = "open"
    /\ remoteFile.exists
    /\ ~last.exists

\* FileExists said no on a client that is not connected
C16_WitnessNotConnected ==
    /\ last.op = "FileExists"
    /\ last.pre.sftp = "nil"
    /\ ~last.exists

----------------------------------------------------------------------------
(* Properties of the remove command *)

\* the keys "0" .. "n-1"
Dense(n) == {Sprintf(i) : i \in 0..(n - 1)}

\* the keys of the records of col whose name differs from nm
Others(col, nm) == {key \in DOMAIN col : col[key].v["AppName"].v # nm}

\* the records of new are those of old under the keys of S, each once
SameRecords(old, S, new) ==
    \E f \in [S -> DOMAIN new] :
        /\ \A x, y \in S : f[x] = f[y] => x = y
        /\ \A key \in DOMAIN new : \E x \in S : f[x] = key
        /\ \A x \in S : new[f[x]] = old[x]

\* C11 as claimed: after a removal that succeeded of a name that some
\* record has, the file holds N-1 records under the keys "0".."N-2", N being
\* the number of records before, and they are the records whose name
\* differs from the removed name.
C11_RemoveAsClaimed ==
    LET before == Stored(ActiveFile(removed.pre.remoteFile,
                                    removed.pre.localFile))
        after == Stored(ActiveFile(remoteFile, localFile))
        N == Cardinality(DOMAIN before.records)
    IN  /\ removed.err = "nil"
        /\ Others(before.records, name) # DOMAIN before.records
        =>
            /\ after.ok
            /\ Cardinality(DOMAIN after.records) = N - 1
            /\ DOMAIN after.records = Dense(N - 1)
            /\ SameRecords(before.records, Others(before.records, name),
                           after.records)

\* C11, amended: after a removal that succeeded, the file holds the N-k
\* records whose name differs from the removed name, k being the number of
\* records of that name, unchanged, under the keys "0".."N-k-1"; the file
\* of the other mode is as it was.
C11_Remove ==
    removed.err = "nil" =>
        LET before == Stored(ActiveFile(removed.pre.remoteFile,
                                        removed.pre.localFile))
            after == Stored(ActiveFile(remoteFile, localFile))
            others == Others(before.records, name)
        IN  /\ after.ok
            /\ DOMAIN after.records = Dense(Cardinality(others))
            /\ SameRecords(before.records, others, after.records)
            /\ IsRemote => localFile = removed.pre.localFile
            /\ ~IsRemote => remoteFile = removed.pre.remoteFile

\* a removal that succeeded, from keys with a gap, of one record out of two
C11_Witness ==
    /\ removed.err = "nil"
    /\ name = "b"
    /\ LET before == Stored(removed.pre.localFile).records IN
        /\ DOMAIN before = {"0", "2"}
        /\ before["0"].v["AppName"].v = "b"
        /\ before["2"].v["AppName"].v = "a"
    /\ Stored(ActiveFile(remoteFile, localFile)).records
            = ("0" :> Map([appid |-> U32(Word(70000)), AppName |-> Str("a"),
                           tags |-> Map("0" :> Str("b"))]))

\* a removal of a name that two records have
C11_WitnessTwo ==
    /\ removed.err = "nil"
    /\ name = "a"
    /\ Cardinality(DOMAIN Stored(removed.pre.localFile).records) = 3
    /\ Cardinality(DOMAIN Stored(ActiveFile(remoteFile, localFile)).records) = 1

----------------------------------------------------------------------------
(* Properties of SetArtwork *)

\* SetArtwork was called
Applied0 == applied # NotApplied

\* the client the steam package would use is there and connected, or the
\* mode is local
Reachable == SteamIsRemote => sftpClient = "open"

\* a user can be found: the user data directory is listed and has a
\* directory in it
UsersDiscoverable ==
    /\ Reachable
    /\ SteamIsRemote => world.users.home
    /\ world.users.readDir
    /\ \E i \in DOMAIN world.users.files : world.users.files[i].IsDir

\* the grid directory can be resolved
GridResolvable ==
    /\ UsersDiscoverable
    /\ ~SteamIsRemote => world.users.userDir

\* the debug-protocol capability: the probe ran and found the module
Capable ==
    /\ Reachable
    /\ world.aiohttp.run
    /\ world.aiohttp.output = ""

\* the calls made for a slot
CallsFor(slot) ==
    {applied.events[i].call :
        i \in {j \in DOMAIN applied.events : applied.events[j].slot = slot}}

\* a method was attempted for the slot, and how it ended
Attempt(slot, method, ok) ==
    \E i \in DOMAIN applied.events :
        applied.events[i] = [slot |-> slot, call |-> method, ok |-> ok]

Attempted(slot, method) == \E ok \in BOOLEAN : Attempt(slot, method, ok)

\* the position of a slot in the order portrait, landscape, hero, logo, icon
SlotIndex(slot) == CHOOSE i \in DOMAIN Slots : Slots[i] = slot

\* the calls that download, inject or write an image
ImageCalls ==
    {"http.Get", "io.ReadAll", "os.WriteFile", "sftp.Create", "file.Write",
     "SetArtworkViaCEF", "uploadArtworkToGrid", "exec.Command"}

\* C12: with a configuration and a grid directory that resolves, SetArtwork
\* returns success whatever fails for a slot, and every slot that has a URL
\* is attempted, the slots in the order portrait, landscape, hero, logo,
\* icon.
C12_SlotFailuresOnlyLogged ==
    Applied0 /\ artwork.config # Nil /\ GridResolvable =>
        /\ applied.err = "nil"
        /\ \A slot \in AllSlots :
                CallsFor(slot) # {} <=> slot \in Given(artwork.config)
        /\ \A slot \in Given(artwork.config) :
                \/ Attempted(slot, "SetArtworkViaCEF")
                \/ Attempted(slot, "uploadArtworkToGrid")
        /\ \A i, j \in DOMAIN applied.events :
                /\ i < j
                /\ applied.events[i].slot # ""
                => /\ applied.events[j].slot # ""
                   /\ SlotIndex(applied.events[i].slot)
                        <= SlotIndex(applied.events[j].slot)

\* both methods failed for the portrait, and the four other slots were
\* attempted after it
C12_Witness ==
    /\ Applied0
    /\ applied.err = "nil"
    /\ Attempt("GridPortrait", "SetArtworkViaCEF", FALSE)
    /\ Attempt("GridPortrait", "uploadArtworkToGrid", FALSE)
    /\ Attempt("GridLandscape", "SetArtworkViaCEF", TRUE)
    /\ Attempt("HeroImage", "SetArtworkViaCEF", FALSE)
    /\ Attempt("HeroImage", "uploadArtworkToGrid", TRUE)
    /\ Attempted("LogoImage", "SetArtworkViaCEF")
    /\ Attempt("IconImage", "uploadArtworkToGrid", TRUE)

\* the extensions a grid file can have
Extensions == {".png", ".jpg", ".webp", ".gif"}

\* the suffix of the base name of the grid file of a slot
SuffixOf(slot) ==
    CASE slot = "GridPortrait" -> "p"
      [] slot = "GridLandscape" -> ""
      [] slot = "HeroImage" -> "_hero"
      [] slot = "LogoImage" -> "_logo"
      [] slot = "IconImage" -> "_icon"

\* the grid files written for a slot
GridFiles(slot) ==
    {file \in grid :
        \E ext \in Extensions :
            HasSuffix(file, "/" \o Itoa(artwork.appID) \o SuffixOf(slot) \o ext)}

\* C13: for a grid slot with a URL the filesystem method is attempted
\* exactly when the capability is absent or the injection for the slot
\* failed; after an injection that succeeded no grid file is written for
\* the slot; without the capability no injection is attempted; the icon is
\* never injected and always goes to the filesystem method.
C13_FallbackRouting ==
    Applied0 /\ artwork.config # Nil /\ GridResolvable =>
        /\ \A slot \in GridSlots \cap Given(artwork.config) :
            /\ Attempted(slot, "uploadArtworkToGrid")
                    <=> (~Capable \/ Attempt(slot, "SetArtworkViaCEF", FALSE))
            /\ Attempted(slot, "SetArtworkViaCEF") <=> Capable
            /\ Attempt(slot, "SetArtworkViaCEF", TRUE)
                    <=> (Capable /\ world.cef[slot] = CefDone)
            /\ Attempt(slot, "SetArtworkViaCEF", TRUE) => GridFiles(slot) = {}
        /\ ~Attempted("IconImage", "SetArtworkViaCEF")
        /\ "IconImage" \in Given(artwork.config)
                => Attempted("IconImage", "uploadArtworkToGrid")

\* with the capability, one slot was injected and has no grid file, another
\* fell back to the filesystem method and has one
C13_Witness ==
    /\ Applied0
    /\ Capable
    /\ Attempt("GridPortrait", "SetArtworkViaCEF", TRUE)
    /\ GridFiles("GridPortrait") = {}
    /\ Attempt("HeroImage", "SetArtworkViaCEF", FALSE)
    /\ Attempt("HeroImage", "uploadArtworkToGrid", TRUE)
    /\ GridFiles("HeroImage") # {}

\* without the capability four slots went to the filesystem method
C13_WitnessNoCapability ==
    /\ Applied0
    /\ ~Capable
    /\ \A slot \in GridSlots : Attempt(slot, "uploadArtworkToGrid", TRUE)

\* C14: with a configuration, when no user can be found SetArtwork fails
\* with NoUsersFound and no slot is processed: nothing is downloaded,
\* injected or written.
C14_NoUsersFound ==
    Applied0 /\ artwork.config # Nil /\ ~UsersDiscoverable =>
        /\ applied.err = "NoUsersFound"
        /\ \A i \in DOMAIN applied.events :
                /\ applied.events[i].slot = ""
                /\ applied.events[i].call \notin ImageCalls \ {"exec.Command"}
        /\ grid = {}

\* all five slots have a URL and no user is found, in remote mode
C14_Witness ==
    /\ Applied0
    /\ SteamIsRemote /\ Reachable
    /\ Given(artwork.config) = AllSlots
    /\ ~UsersDiscoverable
    /\ applied.err = "NoUsersFound"

\* the same in local mode
C14_WitnessLocal ==
    /\ Applied0
    /\ ~SteamIsRemote
    /\ Given(artwork.config) = AllSlots
    /\ ~UsersDiscoverable
    /\ applied.err = "NoUsersFound"

C15_WitnessUserDir ==
    /\ Applied0
    /\ UsersDiscoverable
    /\ applied.err = "HomeDirError"

----------------------------------------------------------------------------
(* Properties of the grid files *)

\* the extension a content type names, "" when it names none
NamedByContentType(contentType) ==
    CASE contentType \in {"image/png"} -> ".png"
      [] contentType \in {"image/jpeg", "image/jpg"} -> ".jpg"
      [] contentType \in {"image/webp"} -> ".webp"
      [] contentType \in {"image/gif", "image/gif; q=1"} -> ".gif"
      [] OTHER -> ""

\* the extension the suffix of a URL stands for, its query string removed
\* and upper case taken for lower case; "" when it stands for none
NamedByUrl(url) ==
    CASE url \in {"a.png", "a.PNG?x=1.gif"} -> ".png"
      [] url \in {"a.jpeg", "a.JPG"} -> ".jpg"
      [] url \in {"a.webp", "A.WeBp"} -> ".webp"
      [] url \in {"a.gif", "a.gif?"} -> ".gif"
      [] OTHER -> ""

\* the directory of the grid files of the user found
GridDir ==
    IF SteamIsRemote THEN "/home/deck/.steam/steam/userdata/7/config/grid"
    ELSE "/home/me/.steam/steam/userdata/7/config/grid"

\* C18: the grid file of a slot is <grid>/<appId><suffix><ext>, the suffix
\* being p, nothing, _hero, _logo or _icon for portrait, landscape, hero,
\* logo and icon, and ext the extension the content type names, else the
\* one the suffix of the URL stands for, else .png; no other file is
\* written, and none when the write fails.
C18_ExtensionPriority ==
    Applied0 /\ artwork.config # Nil /\ GridResolvable =>
        \A slot \in AllSlots :
            LET url == artwork.config[slot]
                contentType == world.fs[slot].contentType
                ext == IF NamedByContentType(contentType) # ""
                       THEN NamedByContentType(contentType)
                       ELSE IF NamedByUrl(url) # "" THEN NamedByUrl(url)
                       ELSE ".png"
                file == GridDir \o "/" \o "12" \o SuffixOf(slot) \o ext
            IN  /\ url \in Urls =>
                    /\ Attempt(slot, "uploadArtworkToGrid", TRUE)
                            <=> file \in grid
                    /\ Attempt(slot, "uploadArtworkToGrid", TRUE)
                            <=> world.fs[slot] = FsDone(contentType)
                    /\ GridFiles(slot) \subseteq {file}
                /\ url = "" => GridFiles(slot) = {}

\* the content type names no format and the URL ends in .PNG before its
\* query string: the hero is written as 12_hero.png
C18_Witness ==
    /\ Applied0
    /\ artwork.config # Nil
    /\ artwork.config["HeroImage"] = "a.PNG?x=1.gif"
    /\ world.fs["HeroImage"].contentType = "text/html"
    /\ grid = {GridDir \o "/12_hero.png"}

\* the content type says gif and the URL says png: the portrait is written
\* as 12p.gif
C18_WitnessContentType ==
    /\ Applied0
    /\ artwork.config # Nil
    /\ artwork.config["GridPortrait"] = "a.png"
    /\ world.fs["GridPortrait"].contentType = "image/gif; q=1"
    /\ grid = {GridDir \o "/12p.gif"}

----------------------------------------------------------------------------
(* Properties of the mode *)

\* C17: the mode is one for the process: a component called while a remote
\* client is registered operates on the remote host, a component called
\* before any is registered operates locally; so no two components called
\* under the same registration differ in mode.
C17_SingleMode ==
    \A c \in DOMAIN used :
        used[c].call # "none" =>
            (used[c].mode = "remote" <=> used[c].registered)

====
